---- MODULE Spec2Model ----
(***************************************************************************)
(* A model of the Norseish shell (src/norseish.c): the main read-eval loop *)
(* (main, line 1451), the delayed-command queue with its worker thread     *)
(* (processDelayedCommands / addDelayedCommand / executeDelayedCommand),   *)
(* and the process execution engine (executeCommand / handlePipes).        *)
(*                                                                         *)
(* A command line is represented by the sequence of its space-separated    *)
(* words; strtok's hidden saved pointer is a (buffer, word index) pair.    *)
(***************************************************************************)
EXTENDS Integers, Sequences, FiniteSets, TLC

\* ---------------------------------------------------------------- bounds
\* last value the wall clock time(NULL) takes in a run
MaxTime == 3
\* number of lines the user types in a run
MaxLines == 3
\* number of child processes that can exist at one time (fork fails beyond)
MaxChildren == 3
\* capacity of delayed_commands[], scaled down from the program's 100
MAX_DELAYED_COMMANDS == 2

\* size of readLine's buffer, scaled down from MAX_COMMAND_LENGTH (256)
BufSize == 4
\* number of keys the user presses in a run
MaxKeys == 6
\* capacity of history[], scaled down from the program's 100
MAX_HISTORY == 3
\* number of entries displayHistory prints at most, scaled down from 10
HistoryShown == 2
\* number of lines passed to addToHistory in a run
MaxAccepted == 5
\* the lines typed into the basic shell loop have at most this many words
MaxWords == 11
\* number of lines typed into the basic shell loop
MaxBasicLines == 2
\* number of files in the subdirectory d
SubdirCount == 24

\* ---------------------------------------------------------------- constants
MAX_ARGS == 25
\* char *args[10] of the basic shell loop
BASIC_ARGS == 10

Main == "main"
Worker == "worker"
Threads == {Main, Worker}
NULL == "NULL"
\* no process in this slot
NoSignals == [INT |-> "none", QUIT |-> "none", TSTP |-> "none", CHLD |-> "none"]

\* what a file descriptor refers to: the terminal the shell was started on,
\* a file opened by name, or one end of a pipe made by a handlePipes call
Terminal == [kind |-> "tty", owner |-> "none", index |-> -1, end |-> "rw", name |-> ""]
File(n, mode) == [kind |-> "file", owner |-> "none", index |-> -1, end |-> mode, name |-> n]
PipeEnd(t, i, e) == [kind |-> "pipe", owner |-> t, index |-> i, end |-> e, name |-> ""]
\* no process in this slot
NoChild ==
  [argv |-> <<>>, stdin |-> Terminal, stdout |-> Terminal, image |-> "none", inherited |-> {}]

\* char **completions = NULL
NoCompletions == [held |-> FALSE, list |-> <<>>]
\* a DelayedCommand variable outside its scope
NoCommand == [scheduled_time |-> 0, command |-> <<>>]

VARIABLES
  now,                \* the wall clock, time(NULL)
  delayed_commands,   \* delayed_commands[0..delayed_command_count), as a sequence
  mutex_owner,        \* queue_mutex: "none" or the thread that holds it
  mutex_destroys,     \* number of pthread_mutex_destroy(&queue_mutex) calls made
  cond_destroys,      \* number of pthread_cond_destroy(&queue_cond) calls made
  destroyed_locked,   \* queue_mutex was locked at a pthread_mutex_destroy call
  cancel_pending,     \* pthread_cancel(delayed_commands_thread) has been called
  pc,                 \* position of each thread
  command,            \* main: command[]; worker: command_to_execute.command
  token,              \* each thread's local token
  args,               \* each thread's args[] (main: expanded_args after expansion)
  background,         \* each thread's local background flag
  stage,              \* handlePipes: stage index while forking, waits left while waiting
  wait_pid,           \* executeCommand: the pid passed to waitpid
  pending,            \* main: the (scheduled_time, command) passed to addDelayedCommand
  to_execute,         \* worker: command_to_execute
  earliest_time,      \* worker: local earliest_time of the last scan
  deadline,           \* worker: absolute time ts of pthread_cond_timedwait
  strtok_save,        \* strtok's static saved pointer (process wide)
  sigchld,            \* the shell's SIGCHLD disposition (process wide)
  children,           \* child processes: pid -> "none" | "running" | "zombie"
  proc,               \* the shell process: "running" or "ended"
  exit_at,            \* where the process ended
  eof,                \* the keystroke source has reached end of input
  typed,              \* number of lines read by readLine
  accepted,           \* number of commands inserted by addDelayedCommand
  handed,             \* number of commands handed to executeDelayedCommand
  term,               \* the terminal's attributes: "cooked", "raw" or "garbage"
  term0,              \* the terminal's attributes when readLine was called
  oldt,               \* readLine: struct termios oldt ("uninit" until tcgetattr fills it)
  rl,                 \* readLine: "idle", "loop" (at getchar), "returned" or "aborted"
  buf,                \* readLine: buf up to its terminating NUL, as a sequence of bytes
  pos,                \* readLine: pos
  completions,        \* readLine: completions (held: not NULL) and the candidates in it
  completion_index,   \* readLine: completion_index
  original_prefix_length, \* readLine: original_prefix_length
  history_index,      \* readLine: history_index
  set_frees,          \* number of times the array completions points to was freed
  last_key,           \* the key the last getchar returned
  nkeys,              \* number of keys read in the run
  history,            \* history[0..MAX_HISTORY)
  history_count,      \* history_count
  all_lines,          \* every line passed to addToHistory, in order
  displayed,          \* what the last displayHistory printed: <<number, text>> rows
  slots,              \* the indices into history[] used by the last history operation
  stage_pids,         \* handlePipes: the pids this call has forked
  child_sig,          \* signal dispositions each child starts its program with
  pipefd,             \* handlePipes: each thread's pipefd[] while its pipes are open
  child_proc,         \* what each child runs: its argv, standard input and output
  stderr,             \* the messages main and addDelayedCommand wrote with fprintf(stderr, ...)
  basic_pc,           \* the basic shell loop (the first main): its position
  basic_rest,         \* basic loop: the words strtok has still to return for the line
  basic_token,        \* basic loop: token
  basic_i,            \* basic loop: i
  basic_args,         \* basic loop: the words stored in args[0..i)
  basic_writes,       \* basic loop: the indices of args written for the current line
  basic_lines         \* basic loop: number of lines fgets has returned

queueVars == <<delayed_commands, mutex_owner, mutex_destroys, cond_destroys,
               destroyed_locked, cancel_pending>>
threadVars == <<pc, command, token, args, background, stage, wait_pid, pending,
                to_execute, earliest_time, deadline>>
procVars == <<strtok_save, sigchld, children, proc, exit_at>>
envVars == <<eof, typed, accepted, handed>>
lineVars == <<term, term0, oldt, rl, buf, pos, completions, completion_index,
              original_prefix_length, history_index, set_frees, last_key, nkeys>>
histVars == <<history, history_count, all_lines, displayed, slots>>
jobVars == <<stage_pids, child_sig, pipefd, child_proc>>
outVars == <<stderr>>
basicVars == <<basic_pc, basic_rest, basic_token, basic_i, basic_args, basic_writes,
               basic_lines>>
vars == <<now, queueVars, threadVars, procVars, envVars, lineVars, histVars, jobVars,
          outVars, basicVars>>

delayed_command_count == Len(delayed_commands)

Min(S) == CHOOSE x \in S : \A y \in S : x <= y

\* ------------------------------------------------------------ pure helpers

\* atoi on the words used here: a non-numeric word gives 0
Atoi(w) == IF w = "1" THEN 1 ELSE IF w = "2" THEN 2 ELSE IF w = "3" THEN 3 ELSE 0

\* readLine's return value pos for a line typed without editing keys:
\* the number of bytes in the buffer
RECURSIVE ByteLen(_)
ByteLen(line) ==
  IF line = <<>> THEN 0
  ELSE Len(Head(line)) + (IF Len(line) > 1 THEN 1 ELSE 0) + ByteLen(Tail(line))

\* one call of strtok continuing from a saved pointer; buf(b) is buffer b
StrtokFrom(save, bufs) ==
  IF save.buf = "none" \/ save.pos > Len(bufs[save.buf])
  THEN [token |-> NULL, save |-> save]
  ELSE [token |-> bufs[save.buf][save.pos],
        save |-> [buf |-> save.buf, pos |-> save.pos + 1]]

\* the words a thread gets when nothing else calls strtok in between
Tokenize(line) == IF Len(line) <= MAX_ARGS - 1 THEN line ELSE SubSeq(line, 1, MAX_ARGS - 1)

\* trailing "&" detection and removal
IsBackground(a) == Len(a) > 0 /\ a[Len(a)] = "&"
StripBackground(a) == IF IsBackground(a) THEN SubSeq(a, 1, Len(a) - 1) ELSE a

\* numCommands: one more than the number of "|" words
NumCommands(a) == 1 + Cardinality({j \in 1..Len(a) : a[j] = "|"})

\* the names glob finds in the current directory, in its sorted order
CwdFiles == <<"x", "y">>

\* the names glob finds for "d/*": the files of the subdirectory d
SubdirFiles == [k \in 1..SubdirCount |-> "d/" \o ToString(k)]

\* the test of expandWildcards for a word to be globbed: it holds *, ? or [
HasWildcard(w) == w \in {"*", "[z]", "d/*"}

\* glob with GLOB_NOCHECK: the matching names, or the pattern itself when
\* nothing matches ("*" matches every name, "[z]" matches none)
Glob(w) ==
  IF w = "*" THEN CwdFiles
  ELSE IF w = "d/*" THEN SubdirFiles
  ELSE <<w>>

\* expandWildcards: a word with a wildcard character is replaced by what glob
\* returns for it, every other word is copied
RECURSIVE expandWildcards(_)
expandWildcards(a) ==
  IF a = <<>> THEN <<>>
  ELSE (IF HasWildcard(Head(a)) THEN Glob(Head(a)) ELSE <<Head(a)>>)
         \o expandWildcards(Tail(a))

\* args[j] of a NULL-terminated vector held as a sequence (0-based j)
At(a, j) == IF j >= 0 /\ j < Len(a) THEN a[j + 1] ELSE NULL

\* a vector read past its NULL entries
UpToNull_skip(a) == SelectSeq(a, LAMBDA w : w # NULL)

\* the argument vector a program receives: the words before the first NULL
RECURSIVE UpToNull(_)
UpToNull(a) ==
  IF a = <<>> \/ Head(a) = NULL THEN <<>> ELSE <<Head(a)>> \o UpToNull(Tail(a))

\* executeCommand's scan: the position of the last word equal to op, or -1
OpPos(a, op) ==
  LET S == {j \in 0..(Len(a) - 1) : a[j + 1] = op}
  IN  IF S = {} THEN -1 ELSE CHOOSE j \in S : \A k \in S : k <= j

\* the files fopen(name, "r") finds
ReadableFiles == {"f"}

\* one redirection block of executeCommand's child, applied to the child's
\* state r = [args, stdin, stdout, image]; opPos is the operator's position
RedirectAt(r, opPos, mode) ==
  IF r.image = "exited" \/ opPos = -1 \/ At(r.args, opPos + 1) = NULL THEN r
  ELSE IF mode = "r" /\ At(r.args, opPos + 1) \notin ReadableFiles
  THEN [r EXCEPT !.image = "exited"]
  ELSE [args   |-> [r.args EXCEPT ![opPos + 1] = NULL],
        stdin  |-> IF mode = "r" THEN File(At(r.args, opPos + 1), mode) ELSE r.stdin,
        stdout |-> IF mode = "r" THEN r.stdout ELSE File(At(r.args, opPos + 1), mode),
        image  |-> r.image]

\* the pipe ends open in the shell process, which a fork copies to the child:
\* those in the pipefd[] of every handlePipes call in progress
OpenPipeEnds(fdtab) ==
  UNION {{fdtab[u][k] : k \in 1..Len(fdtab[u])} : u \in DOMAIN fdtab}

\* the child of executeCommand: the three positions are found first, then
\* input, output and append redirection are applied in that order, then
\* execvp; it closes none of the descriptors the fork copied (open)
EcChild(a, open) ==
  LET inPos     == OpPos(a, "<")
      outPos    == OpPos(a, ">")
      appendPos == OpPos(a, ">>")
      r0 == [args |-> a, stdin |-> Terminal, stdout |-> Terminal, image |-> "program"]
      r3 == RedirectAt(RedirectAt(RedirectAt(r0, inPos, "r"), outPos, "w"), appendPos, "a")
  IN  [argv |-> UpToNull(r3.args), stdin |-> r3.stdin, stdout |-> r3.stdout,
       image |-> IF UpToNull(r3.args) = <<>> THEN "exited" ELSE r3.image,
       inherited |-> open]

\* handlePipes: the words of stage i (0-based), found by walking args from
\* arg_index to the next "|" or the end
RECURSIVE SegmentFrom(_, _)
SegmentFrom(a, arg_index) ==
  IF At(a, arg_index) = NULL \/ At(a, arg_index) = "|" THEN <<>>
  ELSE <<At(a, arg_index)>> \o SegmentFrom(a, arg_index + 1)

\* handlePipes: arg_index at the start of stage i
RECURSIVE ArgIndex(_, _)
ArgIndex(a, i) ==
  IF i = 0 THEN 0
  ELSE LET prev == ArgIndex(a, i - 1)
           stop == prev + Len(SegmentFrom(a, prev))
       IN  IF At(a, stop) = "|" THEN stop + 1 ELSE stop

command_args(a, i) == SegmentFrom(a, ArgIndex(a, i))

\* handlePipes: pipefd after the pipe() calls of thread t, pipefd[2i] being
\* the read end and pipefd[2i + 1] the write end of pipe i
MakePipes(t, num_commands) ==
  [k \in 1..(2 * (num_commands - 1)) |->
     PipeEnd(t, (k - 1) \div 2, IF (k - 1) % 2 = 0 THEN "r" ELSE "w")]

\* the child of handlePipes for stage i: the two dup2 calls, the close of
\* every descriptor in this call's pipefd (fds) out of those the fork copied
\* (open), then execvp when the stage has a first word, exit(1) otherwise
HpChild_swapped(fds, a, i, num_commands, open) ==
  [argv   |-> command_args(a, i),
   stdin  |-> IF i > 0 THEN fds[(i - 1) * 2 + 2] ELSE Terminal,
   stdout |-> IF i < num_commands - 1 THEN fds[i * 2 + 1] ELSE Terminal,
   image  |-> IF command_args(a, i) # <<>> THEN "program" ELSE "exited",
   inherited |-> open \ {fds[k] : k \in 1..Len(fds)}]

HpChild(fds, a, i, num_commands, open) ==
  [argv   |-> command_args(a, i),
   stdin  |-> IF i > 0 THEN fds[(i - 1) * 2 + 1] ELSE Terminal,
   stdout |-> IF i < num_commands - 1 THEN fds[i * 2 + 1 + 1] ELSE Terminal,
   image  |-> IF command_args(a, i) # <<>> THEN "program" ELSE "exited",
   inherited |-> open \ {fds[k] : k \in 1..Len(fds)}]

\* addDelayedCommand: 0-based insert position
InsertIndex_gt(q, t) ==
  LET S == {i \in 0..(Len(q) - 1) : t > q[i + 1].scheduled_time}
  IN  IF S = {} THEN Len(q) ELSE Min(S)

\* the insert position that stops at the first entry not due earlier
InsertIndex_le(q, t) ==
  LET S == {i \in 0..(Len(q) - 1) : t <= q[i + 1].scheduled_time}
  IN  IF S = {} THEN Len(q) ELSE Min(S)

InsertIndex(q, t) ==
  LET S == {i \in 0..(Len(q) - 1) : t < q[i + 1].scheduled_time}
  IN  IF S = {} THEN Len(q) ELSE Min(S)

\* the new entry written at index 0 whatever its scheduled_time
Insert_front(q, e) == <<e>> \o q

\* addDelayedCommand: shift the tail up by one and write the new entry at i
Insert(q, e) ==
  LET i == InsertIndex(q, e.scheduled_time)
  IN  SubSeq(q, 1, i) \o <<e>> \o SubSeq(q, i + 1, Len(q))

\* processDelayedCommands: the scan loop over the queue
RECURSIVE ScanFrom(_, _, _, _, _)
ScanFrom(q, t, i, idx, et) ==
  IF i >= Len(q) THEN [earliest_index |-> idx, earliest_time |-> et]
  ELSE IF q[i + 1].scheduled_time <= t
       THEN [earliest_index |-> i, earliest_time |-> et]
       ELSE IF q[i + 1].scheduled_time < et
            THEN ScanFrom(q, t, i + 1, i, q[i + 1].scheduled_time)
            ELSE ScanFrom(q, t, i + 1, idx, et)

\* the scan with earliest_time started one second too late
Scan_early(q, t) == ScanFrom(q, t, 0, -1, t + 2)

\* the scan without the break: the last ready entry wins
Scan_last(q, t) ==
  LET R == {i \in 0..(Len(q) - 1) : q[i + 1].scheduled_time <= t}
  IN  IF R = {} THEN [earliest_index |-> -1, earliest_time |-> t + 1]
      ELSE [earliest_index |-> CHOOSE i \in R : \A j \in R : j <= i,
            earliest_time |-> t + 1]

Scan(q, t) == ScanFrom(q, t, 0, -1, t + 1)

\* processDelayedCommands: removal of the entry at earliest_index (0-based)
RemoveAt(q, earliest_index) ==
  IF earliest_index = 0
  THEN [k \in 1..(Len(q) - 1) |-> q[k + 1]]
  ELSE IF earliest_index = Len(q) - 1
       THEN SubSeq(q, 1, Len(q) - 1)
       ELSE [k \in 1..(Len(q) - 1) |-> IF k <= earliest_index THEN q[k] ELSE q[k + 1]]

\* ------------------------------------------------------------------- Init
Init ==
  /\ now = 0
  /\ delayed_commands = <<>>
  /\ mutex_owner = "none"
  /\ mutex_destroys = 0
  /\ cond_destroys = 0
  /\ destroyed_locked = FALSE
  /\ cancel_pending = FALSE
  /\ pc = [t \in Threads |-> IF t = Main THEN "readLine" ELSE "w_lock"]
  /\ command = [t \in Threads |-> <<>>]
  /\ token = [t \in Threads |-> NULL]
  /\ args = [t \in Threads |-> <<>>]
  /\ background = [t \in Threads |-> FALSE]
  /\ stage = [t \in Threads |-> 0]
  /\ wait_pid = [t \in Threads |-> 0]
  /\ pending = NoCommand
  /\ to_execute = NoCommand
  /\ earliest_time = 0
  /\ deadline = 0
  /\ strtok_save = [buf |-> "none", pos |-> 0]
  /\ sigchld = "DFL"
  /\ children = [p \in 1..MaxChildren |-> "none"]
  /\ proc = "running"
  /\ exit_at = "none"
  /\ eof = FALSE
  /\ typed = 0
  /\ accepted = 0
  /\ handed = 0
  /\ term = "cooked"
  /\ term0 = "cooked"
  /\ oldt = "uninit"
  /\ rl = "idle"
  /\ buf = <<>>
  /\ pos = 0
  /\ completions = NoCompletions
  /\ completion_index = -1
  /\ original_prefix_length = 0
  /\ history_index = 0
  /\ set_frees = 0
  /\ last_key = "none"
  /\ nkeys = 0
  /\ history = [i \in 0..(MAX_HISTORY - 1) |-> <<>>]
  /\ history_count = 0
  /\ all_lines = <<>>
  /\ displayed = <<>>
  /\ slots = {}
  /\ stage_pids = [t \in Threads |-> {}]
  /\ child_sig = [p \in 1..MaxChildren |-> NoSignals]
  /\ stderr = {}
  /\ basic_pc = "fgets"
  /\ basic_rest = <<>>
  /\ basic_token = NULL
  /\ basic_i = 0
  /\ basic_args = <<>>
  /\ basic_writes = {}
  /\ basic_lines = 0
  /\ pipefd = [t \in Threads |-> <<>>]
  /\ child_proc = [p \in 1..MaxChildren |-> NoChild]

\* ------------------------------------------------------- shared by actions
Running == proc = "running"

\* the position a thread continues at when executeCommand/handlePipes returns
ReturnPc(t) == IF t = Main THEN "readLine" ELSE "w_lock"

\* a thread's locals at the end of their scope
ResetLocals(t) ==
  /\ token' = [token EXCEPT ![t] = NULL]
  /\ args' = [args EXCEPT ![t] = <<>>]
  /\ background' = [background EXCEPT ![t] = FALSE]
  /\ stage' = [stage EXCEPT ![t] = 0]
  /\ wait_pid' = [wait_pid EXCEPT ![t] = 0]

\* exit(1) in the shell process itself
ExitProcess(site) ==
  /\ proc' = "ended"
  /\ exit_at' = site

\* pids fork can hand out
FreePids ==
  {p \in 1..MaxChildren : children[p] = "none" /\ \A t \in Threads : wait_pid[t] # p}

\* the process p is gone: no handlePipes call counts it among its children
Forget(sp, p) == [t \in Threads |-> sp[t] \ {p}]

\* the shell's own signal dispositions: main sets them before the loop, and
\* disownProcess changes the one of SIGCHLD
ShellSignals == [INT |-> "IGN", QUIT |-> "IGN", TSTP |-> "IGN", CHLD |-> sigchld]

\* executeCommand, child: the four signal(..., SIG_DFL) calls on what fork copied
EcChildSignals(inherited) ==
  [inherited EXCEPT !.INT = "DFL", !.QUIT = "DFL", !.TSTP = "DFL", !.CHLD = "DFL"]

\* handlePipes, child: the four signal(..., SIG_DFL) calls on what fork copied
HpChildSignals_nochld(inherited) ==
  [inherited EXCEPT !.INT = "DFL", !.QUIT = "DFL", !.TSTP = "DFL"]

HpChildSignals(inherited) ==
  [inherited EXCEPT !.INT = "DFL", !.QUIT = "DFL", !.TSTP = "DFL", !.CHLD = "DFL"]

\* ------------------------------------------------------------- the clock
\* a delay line read but not yet dispatched
UndispatchedDelay ==
  /\ pc[Main] \in {"strtok_first", "strtok_loop"}
  /\ Len(command[Main]) >= 2
  /\ command[Main][1] = "delay"

\* time(NULL) advances by a second; the clock stops at MaxTime and does not
\* carry a delay line that is being tokenized past a due time of MaxTime
Tick ==
  /\ Running
  /\ now < MaxTime
  /\ UndispatchedDelay => now + 1 + Atoi(command[Main][2]) <= MaxTime
  /\ now' = now + 1
  /\ UNCHANGED <<queueVars, threadVars, procVars, envVars>>
  /\ UNCHANGED <<lineVars, histVars, jobVars, outVars, basicVars>>

\* --------------------------------------------------------------- readLine
\* a line finalized with Enter: readLine returns its length
MainReadLine(line) ==
  /\ Running
  /\ pc[Main] = "readLine"
  /\ ~eof
  /\ typed < MaxLines
  /\ (Len(line) >= 2 /\ line[1] = "delay") => now + Atoi(line[2]) <= MaxTime
  /\ typed' = typed + 1
  /\ command' = [command EXCEPT ![Main] = line]
  /\ pc' = [pc EXCEPT ![Main] = IF ByteLen(line) <= 0 THEN "after_loop" ELSE "strtok_first"]
  /\ UNCHANGED <<now, queueVars, token, args, background, stage, wait_pid, pending,
                 to_execute, earliest_time, deadline, procVars, eof, accepted, handed>>
  /\ UNCHANGED <<lineVars, histVars, jobVars, outVars, basicVars>>

\* end of input: getchar returns EOF, which is neither Tab, Escape, Enter nor
\* Backspace, so the read loop goes on
MainReadEOF ==
  /\ Running
  /\ pc[Main] = "readLine"
  /\ ~eof
  /\ eof' = TRUE
  /\ pc' = [pc EXCEPT ![Main] = "readLine_eof"]
  /\ UNCHANGED <<now, queueVars, command, token, args, background, stage, wait_pid,
                 pending, to_execute, earliest_time, deadline, procVars, typed, accepted,
                 handed>>
  /\ UNCHANGED <<lineVars, histVars, jobVars, outVars, basicVars>>

\* ------------------------------------------------------------ tokenization
\* token = strtok(command, " ")
StrtokFirst(t) ==
  /\ Running
  /\ pc[t] = "strtok_first"
  /\ LET r == StrtokFrom([buf |-> t, pos |-> 1], command)
     IN  /\ token' = [token EXCEPT ![t] = r.token]
         /\ strtok_save' = r.save
  /\ args' = [args EXCEPT ![t] = <<>>]
  /\ pc' = [pc EXCEPT ![t] = "strtok_loop"]
  /\ UNCHANGED <<now, queueVars, command, background, stage, wait_pid, pending,
                 to_execute, earliest_time, deadline, sigchld, children, proc, exit_at,
                 envVars>>
  /\ UNCHANGED <<lineVars, histVars, jobVars, outVars, basicVars>>

\* args[i++] = token; token = strtok(NULL, " ")
StrtokNext(t) ==
  /\ Running
  /\ pc[t] = "strtok_loop"
  /\ token[t] # NULL
  /\ Len(args[t]) < MAX_ARGS - 1
  /\ args' = [args EXCEPT ![t] = Append(@, token[t])]
  /\ LET r == StrtokFrom(strtok_save, command)
     IN  /\ token' = [token EXCEPT ![t] = r.token]
         /\ strtok_save' = r.save
  /\ UNCHANGED <<now, queueVars, pc, command, background, stage, wait_pid, pending,
                 to_execute, earliest_time, deadline, sigchld, children, proc, exit_at,
                 envVars>>
  /\ UNCHANGED <<lineVars, histVars, jobVars, outVars, basicVars>>

TokenizeDone(t) ==
  /\ pc[t] = "strtok_loop"
  /\ (token[t] = NULL \/ Len(args[t]) >= MAX_ARGS - 1)

\* ------------------------------------------------------ main: the dispatch
MainDispatch ==
  /\ Running
  /\ TokenizeDone(Main)
  /\ LET bg == IsBackground(args[Main])
         a  == StripBackground(args[Main])
         i  == Len(a)
         ea == expandWildcards(a)
         GoReadLine == /\ pc' = [pc EXCEPT ![Main] = "readLine"]
                       /\ ResetLocals(Main)
                       /\ UNCHANGED pending
         msgs == IF i = 0 THEN {}
                 ELSE IF a[1] = "delay"
                 THEN IF i < 3 THEN {"Usage: delay <seconds> <command>"}
                      ELSE IF Atoi(a[2]) <= 0 THEN {"delay: Invalid number of seconds"}
                      ELSE {}
                 ELSE IF a[1] # "history" /\ ea[1] = "cd" /\ Len(ea) < 2
                 THEN {"cd: missing argument"}
                 ELSE {}
     IN  /\ stderr' = stderr \cup msgs
         /\ IF i = 0 THEN GoReadLine
            ELSE IF a[1] = "delay"
            THEN IF i < 3 \/ Atoi(a[2]) <= 0
                 THEN GoReadLine
                 ELSE /\ pending' = [scheduled_time |-> now + Atoi(a[2]),
                                     command |-> SubSeq(a, 3, i)]
                      /\ pc' = [pc EXCEPT ![Main] = "add_lock"]
                      /\ ResetLocals(Main)
            ELSE IF a[1] = "history" THEN GoReadLine
            ELSE IF ea[1] = "exit"
            THEN /\ pc' = [pc EXCEPT ![Main] = "exit_cancel"]
                 /\ ResetLocals(Main)
                 /\ UNCHANGED pending
            ELSE IF ea[1] = "cd" THEN GoReadLine
            ELSE /\ pc' = [pc EXCEPT ![Main] =
                             IF NumCommands(ea) > 1 THEN "hp_pipe" ELSE "ec_fork"]
                 /\ args' = [args EXCEPT ![Main] = ea]
                 /\ background' = [background EXCEPT ![Main] = bg]
                 /\ token' = [token EXCEPT ![Main] = NULL]
                 /\ UNCHANGED <<stage, wait_pid, pending>>
  /\ UNCHANGED <<now, queueVars, command, to_execute, earliest_time, deadline,
                 procVars, envVars>>
  /\ UNCHANGED <<lineVars, histVars, jobVars, basicVars>>

\* ------------------------------------------------------- addDelayedCommand
AddLock_skip ==
  /\ Running
  /\ pc[Main] = "add_lock"
  /\ pc' = [pc EXCEPT ![Main] = "add_insert"]
  /\ UNCHANGED <<now, queueVars, command, token, args, background, stage, wait_pid,
                 pending, to_execute, earliest_time, deadline, procVars, envVars>>
  /\ UNCHANGED <<lineVars, histVars, jobVars, outVars, basicVars>>

\* pthread_mutex_lock(&queue_mutex)
AddLock ==
  /\ Running
  /\ pc[Main] = "add_lock"
  /\ mutex_owner = "none"
  /\ mutex_owner' = Main
  /\ pc' = [pc EXCEPT ![Main] = "add_insert"]
  /\ UNCHANGED <<now, delayed_commands, mutex_destroys, cond_destroys, destroyed_locked,
                 cancel_pending, command, token, args, background, stage, wait_pid,
                 pending, to_execute, earliest_time, deadline, procVars, envVars>>
  /\ UNCHANGED <<lineVars, histVars, jobVars, outVars, basicVars>>

\* a signal that wakes nobody
Signalled_lost(p) == p

\* pthread_cond_signal: a worker blocked on queue_cond becomes runnable
Signalled(p) ==
  IF p = "w_condwait" THEN "w_cresume"
  ELSE IF p = "w_timedwait" THEN "w_tresume"
  ELSE p

\* the insert (or the queue-full report), the signal and the unlock
AddInsert_nocheck ==
  /\ Running
  /\ pc[Main] = "add_insert"
  /\ delayed_commands' =
       Insert(delayed_commands,
              [scheduled_time |-> pending.scheduled_time, command |-> pending.command])
  /\ accepted' = accepted + 1
  /\ pc' = [pc EXCEPT ![Main] = "readLine", ![Worker] = Signalled(@)]
  /\ deadline' = 0
  /\ mutex_owner' = "none"
  /\ pending' = NoCommand
  /\ UNCHANGED <<now, mutex_destroys, cond_destroys, destroyed_locked, cancel_pending,
                 command, token, args, background, stage, wait_pid, to_execute,
                 earliest_time, procVars, handed, eof, typed>>
  /\ UNCHANGED <<lineVars, histVars, jobVars, outVars, basicVars>>

\* the insertion, the signal and the unlock of addDelayedCommand, or the
\* message when the queue is full
AddInsert ==
  /\ Running
  /\ pc[Main] = "add_insert"
  /\ IF delayed_command_count < MAX_DELAYED_COMMANDS
     THEN /\ delayed_commands' =
               Insert(delayed_commands,
                      [scheduled_time |-> pending.scheduled_time,
                       command |-> pending.command])
          /\ accepted' = accepted + 1
          /\ pc' = [pc EXCEPT ![Main] = "readLine", ![Worker] = Signalled(@)]
          /\ deadline' = 0
          /\ UNCHANGED stderr
     ELSE /\ pc' = [pc EXCEPT ![Main] = "readLine"]
          /\ stderr' = stderr \cup {"Delayed command queue is full."}
          /\ UNCHANGED <<delayed_commands, accepted, deadline>>
  /\ UNCHANGED <<eof, typed>>
  /\ mutex_owner' = "none"
  /\ pending' = NoCommand
  /\ UNCHANGED <<now, mutex_destroys, cond_destroys, destroyed_locked, cancel_pending,
                 command, token, args, background, stage, wait_pid, to_execute,
                 earliest_time, procVars, handed>>
  /\ UNCHANGED <<lineVars, histVars, jobVars, basicVars>>

\* ------------------------------------------------------ main: exit and end
\* pthread_cancel(delayed_commands_thread)
ExitCancel ==
  /\ Running
  /\ pc[Main] = "exit_cancel"
  /\ cancel_pending' = TRUE
  /\ pc' = [pc EXCEPT ![Main] = "exit_join"]
  /\ UNCHANGED <<now, delayed_commands, mutex_owner, mutex_destroys, cond_destroys,
                 destroyed_locked, command, token, args, background, stage, wait_pid,
                 pending, to_execute, earliest_time, deadline, procVars, envVars>>
  /\ UNCHANGED <<lineVars, histVars, jobVars, outVars, basicVars>>

\* a join that does not wait
ExitJoin_nowait ==
  /\ Running
  /\ pc[Main] = "exit_join"
  /\ pc' = [pc EXCEPT ![Main] = "exit_destroy"]
  /\ UNCHANGED <<now, queueVars, command, token, args, background, stage, wait_pid,
                 pending, to_execute, earliest_time, deadline, procVars, envVars>>
  /\ UNCHANGED <<lineVars, histVars, jobVars, outVars, basicVars>>

\* pthread_join returns once the worker thread has terminated
ExitJoin ==
  /\ Running
  /\ pc[Main] = "exit_join"
  /\ pc[Worker] = "terminated"
  /\ pc' = [pc EXCEPT ![Main] = "exit_destroy"]
  /\ UNCHANGED <<now, queueVars, command, token, args, background, stage, wait_pid,
                 pending, to_execute, earliest_time, deadline, procVars, envVars>>
  /\ UNCHANGED <<lineVars, histVars, jobVars, outVars, basicVars>>

\* pthread_mutex_destroy(&queue_mutex); pthread_cond_destroy(&queue_cond)
DestroyPrimitives ==
  /\ mutex_destroys' = mutex_destroys + 1
  /\ cond_destroys' = cond_destroys + 1
  /\ destroyed_locked' = (destroyed_locked \/ mutex_owner # "none")

\* the destroy calls of the exit branch, then break
ExitDestroy ==
  /\ Running
  /\ pc[Main] = "exit_destroy"
  /\ DestroyPrimitives
  /\ pc' = [pc EXCEPT ![Main] = "after_loop"]
  /\ UNCHANGED <<now, delayed_commands, mutex_owner, cancel_pending, command, token, args,
                 background, stage, wait_pid, pending, to_execute, earliest_time, deadline,
                 procVars, envVars>>
  /\ UNCHANGED <<lineVars, histVars, jobVars, outVars, basicVars>>

\* after the loop: the destroy calls and return 0 from main
MainAfterLoop ==
  /\ Running
  /\ pc[Main] = "after_loop"
  /\ DestroyPrimitives
  /\ pc' = [pc EXCEPT ![Main] = "returned"]
  /\ ExitProcess(IF cancel_pending THEN "return_after_exit" ELSE "return_after_readLine")
  /\ UNCHANGED <<now, delayed_commands, mutex_owner, cancel_pending, command, token, args,
                 background, stage, wait_pid, pending, to_execute, earliest_time, deadline,
                 strtok_save, sigchld, children, envVars>>
  /\ UNCHANGED <<lineVars, histVars, jobVars, outVars, basicVars>>

\* ---------------------------------------------------------- executeCommand
\* fork; in the parent either waitpid follows (foreground) or the pid is
\* printed and disownProcess sets SIGCHLD to SIG_IGN (background)
EcFork(t, ok) ==
  /\ Running
  /\ pc[t] = "ec_fork"
  /\ IF ok
     THEN /\ FreePids # {}
          /\ LET p == Min(FreePids)
             IN  /\ children' = [children EXCEPT ![p] = "running"]
                 /\ child_sig' = [child_sig EXCEPT ![p] = EcChildSignals(ShellSignals)]
                 /\ child_proc' = [child_proc EXCEPT ![p] = EcChild(args[t], OpenPipeEnds(pipefd))]
                 /\ IF background[t]
                    THEN /\ sigchld' = "IGN"
                         /\ pc' = [pc EXCEPT ![t] = ReturnPc(t)]
                         /\ ResetLocals(t)
                    ELSE /\ pc' = [pc EXCEPT ![t] = "ec_wait"]
                         /\ wait_pid' = [wait_pid EXCEPT ![t] = p]
                         /\ UNCHANGED <<sigchld, token, args, background, stage>>
          /\ UNCHANGED <<proc, exit_at>>
     ELSE /\ ExitProcess("executeCommand_fork")
          /\ UNCHANGED <<pc, token, args, background, stage, wait_pid, sigchld, children,
                         child_sig, child_proc>>
  /\ UNCHANGED <<now, queueVars, command, pending, to_execute, earliest_time, deadline,
                 strtok_save, envVars>>
  /\ UNCHANGED <<lineVars, histVars, stage_pids, pipefd, outVars, basicVars>>

\* a waitpid that does not block
EcWait_nowait(t) ==
  /\ Running
  /\ pc[t] = "ec_wait"
  /\ children' = [children EXCEPT ![wait_pid[t]] = "none"]
  /\ child_sig' = [child_sig EXCEPT ![wait_pid[t]] = NoSignals]
  /\ child_proc' = [child_proc EXCEPT ![wait_pid[t]] = NoChild]
  /\ pc' = [pc EXCEPT ![t] = ReturnPc(t)]
  /\ ResetLocals(t)
  /\ UNCHANGED <<now, queueVars, command, pending, to_execute, earliest_time, deadline,
                 strtok_save, sigchld, proc, exit_at, envVars>>
  /\ UNCHANGED <<lineVars, histVars, stage_pids, pipefd, outVars, basicVars>>

\* waitpid(pid, &status, 0) returns once that child is no longer running
EcWait(t) ==
  /\ Running
  /\ pc[t] = "ec_wait"
  /\ children[wait_pid[t]] # "running"
  /\ children' = [children EXCEPT ![wait_pid[t]] = "none"]
  /\ child_sig' = [child_sig EXCEPT ![wait_pid[t]] = NoSignals]
  /\ child_proc' = [child_proc EXCEPT ![wait_pid[t]] = NoChild]
  /\ pc' = [pc EXCEPT ![t] = ReturnPc(t)]
  /\ ResetLocals(t)
  /\ UNCHANGED <<now, queueVars, command, pending, to_execute, earliest_time, deadline,
                 strtok_save, sigchld, proc, exit_at, envVars>>
  /\ UNCHANGED <<lineVars, histVars, stage_pids, pipefd, outVars, basicVars>>

\* ------------------------------------------------------------- handlePipes
\* the pipe() calls
HpPipe(t, ok) ==
  /\ Running
  /\ pc[t] = "hp_pipe"
  /\ IF ok
     THEN /\ pc' = [pc EXCEPT ![t] = "hp_fork"]
          /\ stage' = [stage EXCEPT ![t] = 0]
          /\ pipefd' = [pipefd EXCEPT ![t] = MakePipes(t, NumCommands(args[t]))]
          /\ UNCHANGED <<proc, exit_at>>
     ELSE /\ ExitProcess("handlePipes_pipe")
          /\ UNCHANGED <<pc, stage, pipefd>>
  /\ UNCHANGED <<now, queueVars, command, token, args, background, wait_pid, pending,
                 to_execute, earliest_time, deadline, strtok_save, sigchld, children,
                 envVars>>
  /\ UNCHANGED <<lineVars, histVars, stage_pids, child_sig, child_proc, outVars, basicVars>>

\* the stage about to be forked has more words than command_args has room
\* for beside the terminator
StageOverflows(t) == Len(command_args(args[t], stage[t])) > MAX_ARGS - 1

\* the copy of stage i into command_args and the fork.  When the stage has
\* more than MAX_ARGS - 1 words the copy writes past the end of the array:
\* the process either goes on (survives) or is ended at that point.  The
\* step that does not fork (ok = FALSE) is that ending or the exit(1) after a
\* failed fork.
HpFork(t, ok, survives) ==
  /\ Running
  /\ pc[t] = "hp_fork"
  /\ IF ok
     THEN /\ FreePids # {}
          /\ ~StageOverflows(t) \/ survives
          /\ children' = [children EXCEPT ![Min(FreePids)] = "running"]
          /\ child_sig' = [child_sig EXCEPT ![Min(FreePids)] = HpChildSignals(ShellSignals)]
          /\ child_proc' = [child_proc EXCEPT ![Min(FreePids)] =
                              HpChild(pipefd[t], args[t], stage[t], NumCommands(args[t]),
                                      OpenPipeEnds(pipefd))]
          /\ stage_pids' = [stage_pids EXCEPT ![t] = @ \cup {Min(FreePids)}]
          /\ stage' = [stage EXCEPT ![t] = @ + 1]
          /\ pc' = [pc EXCEPT ![t] =
                      IF stage[t] + 1 >= NumCommands(args[t]) THEN "hp_close" ELSE "hp_fork"]
          /\ UNCHANGED <<proc, exit_at>>
     ELSE /\ ExitProcess(IF StageOverflows(t) /\ ~survives
                          THEN "handlePipes_command_args" ELSE "handlePipes_fork")
          /\ UNCHANGED <<pc, stage, children, stage_pids, child_sig, child_proc>>
  /\ UNCHANGED <<now, queueVars, command, token, args, background, wait_pid, pending,
                 to_execute, earliest_time, deadline, strtok_save, sigchld, envVars>>
  /\ UNCHANGED <<lineVars, histVars, pipefd, outVars, basicVars>>

\* the parent closing its pipe ends and, for a background pipeline, setting
\* SIGCHLD to SIG_IGN as the single-command path does
HpClose_disown(t) ==
  /\ Running
  /\ pc[t] = "hp_close"
  /\ ~(t = Worker /\ cancel_pending)
  /\ pipefd' = [pipefd EXCEPT ![t] = <<>>]
  /\ IF background[t]
     THEN /\ pc' = [pc EXCEPT ![t] = ReturnPc(t)]
          /\ ResetLocals(t)
          /\ stage_pids' = [stage_pids EXCEPT ![t] = {}]
          /\ sigchld' = "IGN"
     ELSE /\ pc' = [pc EXCEPT ![t] = "hp_wait"]
          /\ stage' = [stage EXCEPT ![t] = NumCommands(args[t])]
          /\ UNCHANGED <<token, args, background, wait_pid, stage_pids, sigchld>>
  /\ UNCHANGED <<now, queueVars, command, pending, to_execute, earliest_time, deadline,
                 strtok_save, children, proc, exit_at, envVars>>
  /\ UNCHANGED <<lineVars, histVars, child_sig, child_proc, outVars, basicVars>>

\* the parent closes its pipe ends; then it waits (foreground) or returns
HpClose(t) ==
  /\ Running
  /\ pc[t] = "hp_close"
  /\ ~(t = Worker /\ cancel_pending)
  /\ pipefd' = [pipefd EXCEPT ![t] = <<>>]
  /\ IF background[t]
     THEN /\ pc' = [pc EXCEPT ![t] = ReturnPc(t)]
          /\ ResetLocals(t)
          /\ stage_pids' = [stage_pids EXCEPT ![t] = {}]
     ELSE /\ pc' = [pc EXCEPT ![t] = "hp_wait"]
          /\ stage' = [stage EXCEPT ![t] = NumCommands(args[t])]
          /\ UNCHANGED <<token, args, background, wait_pid, stage_pids>>
  /\ UNCHANGED <<now, queueVars, command, pending, to_execute, earliest_time, deadline,
                 procVars, envVars>>
  /\ UNCHANGED <<lineVars, histVars, child_sig, child_proc, outVars, basicVars>>

\* one wait(NULL): it reaps any terminated child of the process, fails at
\* once when the process has no child, and blocks otherwise
HpWait(t) ==
  /\ Running
  /\ pc[t] = "hp_wait"
  /\ \E r \in 0..MaxChildren :
       /\ IF r = 0
          THEN /\ \A p \in 1..MaxChildren : children[p] = "none"
               /\ UNCHANGED <<children, child_sig, child_proc>>
          ELSE /\ children[r] = "zombie"
               /\ children' = [children EXCEPT ![r] = "none"]
               /\ child_sig' = [child_sig EXCEPT ![r] = NoSignals]
               /\ child_proc' = [child_proc EXCEPT ![r] = NoChild]
       /\ IF stage[t] > 1
          THEN /\ stage' = [stage EXCEPT ![t] = @ - 1]
               /\ stage_pids' = Forget(stage_pids, r)
               /\ UNCHANGED <<pc, token, args, background, wait_pid>>
          ELSE /\ pc' = [pc EXCEPT ![t] = ReturnPc(t)]
               /\ ResetLocals(t)
               /\ stage_pids' = [Forget(stage_pids, r) EXCEPT ![t] = {}]
  /\ UNCHANGED <<now, queueVars, command, pending, to_execute, earliest_time, deadline,
                 strtok_save, sigchld, proc, exit_at, envVars>>
  /\ UNCHANGED <<lineVars, histVars, pipefd, outVars, basicVars>>

\* a launched program terminates: it stays as a zombie until waited for,
\* unless the shell ignores SIGCHLD
ChildExit(p) ==
  /\ Running
  /\ children[p] = "running"
  /\ children' = [children EXCEPT ![p] = IF sigchld = "IGN" THEN "none" ELSE "zombie"]
  /\ child_sig' = [child_sig EXCEPT ![p] = IF sigchld = "IGN" THEN NoSignals ELSE @]
  /\ child_proc' = [child_proc EXCEPT ![p] = IF sigchld = "IGN" THEN NoChild ELSE @]
  /\ stage_pids' = IF sigchld = "IGN" THEN Forget(stage_pids, p) ELSE stage_pids
  /\ UNCHANGED <<now, queueVars, threadVars, strtok_save, sigchld, proc, exit_at, envVars>>
  /\ UNCHANGED <<lineVars, histVars, pipefd, outVars, basicVars>>

\* -------------------------------------------------- processDelayedCommands
\* pthread_mutex_lock at the top of the loop
WLock ==
  /\ Running
  /\ pc[Worker] = "w_lock"
  /\ mutex_owner = "none"
  /\ mutex_owner' = Worker
  /\ pc' = [pc EXCEPT ![Worker] = "w_check"]
  /\ UNCHANGED <<now, delayed_commands, mutex_destroys, cond_destroys, destroyed_locked,
                 cancel_pending, command, token, args, background, stage, wait_pid,
                 pending, to_execute, earliest_time, deadline, procVars, envVars>>
  /\ UNCHANGED <<lineVars, histVars, jobVars, outVars, basicVars>>

\* under the lock: wait while the queue is empty; otherwise sample the time,
\* scan, and remove the entry found
WCheck ==
  /\ Running
  /\ pc[Worker] = "w_check"
  /\ IF delayed_command_count = 0
     THEN /\ mutex_owner' = "none"
          /\ pc' = [pc EXCEPT ![Worker] = "w_condwait"]
          /\ UNCHANGED <<delayed_commands, to_execute, earliest_time, handed>>
     ELSE LET s == Scan(delayed_commands, now)
          IN  IF s.earliest_index # -1
              THEN /\ to_execute' = delayed_commands[s.earliest_index + 1]
                   /\ delayed_commands' = RemoveAt(delayed_commands, s.earliest_index)
                   /\ handed' = handed + 1
                   /\ pc' = [pc EXCEPT ![Worker] = "w_unlock"]
                   /\ UNCHANGED <<mutex_owner, earliest_time>>
              ELSE /\ earliest_time' = s.earliest_time
                   /\ pc' = [pc EXCEPT ![Worker] = "w_nodue"]
                   /\ UNCHANGED <<mutex_owner, delayed_commands, to_execute, handed>>
  /\ UNCHANGED <<now, mutex_destroys, cond_destroys, destroyed_locked, cancel_pending,
                 command, token, args, background, stage, wait_pid, pending, deadline,
                 procVars, eof, typed, accepted>>
  /\ UNCHANGED <<lineVars, histVars, jobVars, outVars, basicVars>>

\* the unlock without the unlock
WUnlock_keep ==
  /\ Running
  /\ pc[Worker] = "w_unlock"
  /\ command' = [command EXCEPT ![Worker] = to_execute.command]
  /\ to_execute' = NoCommand
  /\ pc' = [pc EXCEPT ![Worker] = "strtok_first"]
  /\ UNCHANGED <<now, queueVars, token, args, background, stage, wait_pid, pending,
                 earliest_time, deadline, procVars, envVars>>
  /\ UNCHANGED <<lineVars, histVars, jobVars, outVars, basicVars>>

\* pthread_mutex_unlock, then the call executeDelayedCommand(command_to_execute.command)
WUnlock ==
  /\ Running
  /\ pc[Worker] = "w_unlock"
  /\ mutex_owner' = "none"
  /\ command' = [command EXCEPT ![Worker] = to_execute.command]
  /\ to_execute' = NoCommand
  /\ pc' = [pc EXCEPT ![Worker] = "strtok_first"]
  /\ UNCHANGED <<now, delayed_commands, mutex_destroys, cond_destroys, destroyed_locked,
                 cancel_pending, token, args, background, stage, wait_pid, pending,
                 earliest_time, deadline, procVars, envVars>>
  /\ UNCHANGED <<lineVars, histVars, jobVars, outVars, basicVars>>

\* nothing is ready: the time is sampled again, and the worker either starts
\* a timed wait or unlocks at once
WNoDue ==
  /\ Running
  /\ pc[Worker] = "w_nodue"
  /\ LET time_to_wait == earliest_time - now
     IN  IF time_to_wait > 0
         THEN /\ deadline' = now + time_to_wait
              /\ pc' = [pc EXCEPT ![Worker] = "w_timedwait"]
         ELSE /\ pc' = [pc EXCEPT ![Worker] = "w_lock"]
              /\ UNCHANGED deadline
  /\ mutex_owner' = "none"
  /\ earliest_time' = 0
  /\ UNCHANGED <<now, delayed_commands, mutex_destroys, cond_destroys, destroyed_locked,
                 cancel_pending, command, token, args, background, stage, wait_pid,
                 pending, to_execute, procVars, envVars>>
  /\ UNCHANGED <<lineVars, histVars, jobVars, outVars, basicVars>>

\* pthread_cond_timedwait times out
WTimeout ==
  /\ Running
  /\ pc[Worker] = "w_timedwait"
  /\ now >= deadline
  /\ pc' = [pc EXCEPT ![Worker] = "w_tresume"]
  /\ deadline' = 0
  /\ UNCHANGED <<now, queueVars, command, token, args, background, stage, wait_pid,
                 pending, to_execute, earliest_time, procVars, envVars>>
  /\ UNCHANGED <<lineVars, histVars, jobVars, outVars, basicVars>>

\* a spurious wakeup from either wait
WSpurious ==
  /\ Running
  /\ pc[Worker] \in {"w_condwait", "w_timedwait"}
  /\ pc' = [pc EXCEPT ![Worker] = Signalled(@)]
  /\ deadline' = 0
  /\ UNCHANGED <<now, queueVars, command, token, args, background, stage, wait_pid,
                 pending, to_execute, earliest_time, procVars, envVars>>
  /\ UNCHANGED <<lineVars, histVars, jobVars, outVars, basicVars>>

\* pthread_cond_wait returns with the mutex held: back to the emptiness test
WCResume ==
  /\ Running
  /\ pc[Worker] = "w_cresume"
  /\ mutex_owner = "none"
  /\ mutex_owner' = Worker
  /\ pc' = [pc EXCEPT ![Worker] = "w_check"]
  /\ UNCHANGED <<now, delayed_commands, mutex_destroys, cond_destroys, destroyed_locked,
                 cancel_pending, command, token, args, background, stage, wait_pid,
                 pending, to_execute, earliest_time, deadline, procVars, envVars>>
  /\ UNCHANGED <<lineVars, histVars, jobVars, outVars, basicVars>>

\* pthread_cond_timedwait returns with the mutex held, and the unlock follows
WTResume ==
  /\ Running
  /\ pc[Worker] = "w_tresume"
  /\ mutex_owner = "none"
  /\ pc' = [pc EXCEPT ![Worker] = "w_lock"]
  /\ UNCHANGED <<now, queueVars, command, token, args, background, stage, wait_pid,
                 pending, to_execute, earliest_time, deadline, procVars, envVars>>
  /\ UNCHANGED <<lineVars, histVars, jobVars, outVars, basicVars>>

\* the cancellation request is acted on at a cancellation point: inside a
\* condition wait the mutex is re-acquired first and stays locked; in
\* waitpid, wait and close the thread just ends
CondWaitPcs == {"w_condwait", "w_timedwait", "w_cresume", "w_tresume"}
OtherCancelPcs == {"ec_wait", "hp_wait", "hp_close"}

WCancelled ==
  /\ Running
  /\ cancel_pending
  /\ \/ /\ pc[Worker] \in CondWaitPcs
        /\ mutex_owner = "none"
        /\ mutex_owner' = Worker
     \/ /\ pc[Worker] \in OtherCancelPcs
        /\ UNCHANGED mutex_owner
  /\ pc' = [pc EXCEPT ![Worker] = "terminated"]
  /\ deadline' = 0
  /\ UNCHANGED <<now, delayed_commands, mutex_destroys, cond_destroys, destroyed_locked,
                 cancel_pending, command, token, args, background, stage, wait_pid,
                 pending, to_execute, earliest_time, procVars, envVars>>
  /\ UNCHANGED <<lineVars, histVars, jobVars, outVars, basicVars>>

\* ---------------------------------------------------- executeDelayedCommand
\* after the tokenization: background detection, numCommands, and the call
\* of handlePipes or executeCommand
WDispatch ==
  /\ Running
  /\ TokenizeDone(Worker)
  /\ LET bg == IsBackground(args[Worker])
         a  == StripBackground(args[Worker])
     IN  /\ pc' = [pc EXCEPT ![Worker] =
                     IF NumCommands(a) > 1 THEN "hp_pipe" ELSE "ec_fork"]
         /\ args' = [args EXCEPT ![Worker] = a]
         /\ background' = [background EXCEPT ![Worker] = bg]
         /\ token' = [token EXCEPT ![Worker] = NULL]
  /\ UNCHANGED <<now, queueVars, command, stage, wait_pid, pending, to_execute,
                 earliest_time, deadline, procVars, envVars>>
  /\ UNCHANGED <<lineVars, histVars, jobVars, outVars, basicVars>>

\* ------------------------------------------------- readLine, key by key
\* the printable bytes the user types
Bytes == {"a", "b"}
\* the byte that (char)EOF stores
EOFByte == "0xFF"
\* the terminal attribute values; "garbage" is any other setting
TermValues == {"cooked", "raw", "garbage"}

\* the entries readdir returns for the current directory (regular files),
\* and the executables found along PATH
Dir == << <<"a", "a">>, <<"a", "b">>, <<"b">> >>
PathExecs == << <<"b", "a">> >>

IsPrefix(pre, s) == Len(pre) <= Len(s) /\ SubSeq(s, 1, Len(pre)) = pre

InSeq(x, q) == \E k \in 1..Len(q) : q[k] = x

\* generateCompletions for a buffer without '/': the directory entries and
\* then the PATH executables not yet listed that start with buf[0..pos)
generateCompletions(b, p) ==
  LET prefix == SubSeq(b, 1, p)
      M(e) == IsPrefix(prefix, e)
      local == SelectSeq(Dir, M)
      N(e) == IsPrefix(prefix, e) /\ ~InSeq(e, local)
  IN  local \o SelectSeq(PathExecs, N)

\* strncpy(buf, src, bufsize - 1); buf[bufsize - 1] = '\0'
Strncpy(src) == SubSeq(src, 1, Min({Len(src), BufSize - 1}))

\* displayInlineCompletions(prompt, buf, completion): the offset into
\* completion from which the suggestion is printed, completion + strlen(buf)
InlineOffset(b) == Len(b)

\* newt.c_lflag &= ~(ICANON | ECHO)
NoCanonNoEcho(t) == IF t = "cooked" THEN "raw" ELSE t

\* the attributes tcsetattr(STDIN_FILENO, TCSANOW, oldt) installs: those
\* saved, or whatever an oldt that was never filled happens to hold
RestoredValues == IF oldt = "uninit" THEN TermValues ELSE {oldt}

\* the values a read of history[i] can give: the slot, or for an index
\* outside the array whatever lies there
HistoryRead(h, i) ==
  IF i \in 0..(MAX_HISTORY - 1) THEN {h[i]}
  ELSE {h[j] : j \in 0..(MAX_HISTORY - 1)} \cup {<<EOFByte>>}

completion_count == Len(completions.list)

\* if (completions != NULL) { free the candidates and the array;
\* completions = NULL; completion_count = 0; completion_index = -1; }
DropCompletions ==
  /\ completions' = NoCompletions
  /\ completion_index' = IF completions.held THEN -1 ELSE completion_index
  /\ set_frees' = 0

KeyRead(k) ==
  /\ Running
  /\ rl = "loop"
  /\ nkeys < MaxKeys
  /\ eof => k = "EOF"
  /\ nkeys' = nkeys + 1
  /\ last_key' = k

\* the call: disableInputBuffering and the initialisation of the locals
RlCall(getok, setok) ==
  /\ Running
  /\ pc[Main] = "readLine"
  /\ rl = "idle"
  /\ nkeys < MaxKeys
  /\ term0' = term
  /\ IF getok
     THEN /\ oldt' = term
          /\ term' = IF setok THEN NoCanonNoEcho(term) ELSE term
     ELSE /\ oldt' = "uninit"
          /\ term' = term
  /\ rl' = "loop"
  /\ buf' = <<>>
  /\ pos' = 0
  /\ history_index' = history_count
  /\ completions' = NoCompletions
  /\ completion_index' = -1
  /\ original_prefix_length' = 0
  /\ set_frees' = 0
  /\ UNCHANGED <<last_key, nkeys>>
  /\ UNCHANGED <<now, queueVars, threadVars, procVars, envVars, histVars, jobVars, outVars, basicVars>>

\* Tab
RlTab ==
  /\ KeyRead("Tab")
  /\ LET ci == IF completions.held THEN -1 ELSE completion_index
         cs == generateCompletions(buf, pos)
     IN  /\ completions' = [held |-> TRUE, list |-> cs]
         /\ set_frees' = 0
         /\ IF Len(cs) > 0
            THEN /\ completion_index' = (ci + 1) % Len(cs)
                 /\ original_prefix_length' = pos
                 /\ buf' = Strncpy(cs[((ci + 1) % Len(cs)) + 1])
                 /\ pos' = Len(buf')
            ELSE /\ completion_index' = ci
                 /\ UNCHANGED <<original_prefix_length, buf, pos>>
  /\ UNCHANGED <<term, term0, oldt, rl, history_index>>
  /\ UNCHANGED <<now, queueVars, threadVars, procVars, envVars, histVars, jobVars, outVars, basicVars>>

\* Escape [ A: Up
RlUp ==
  /\ KeyRead("Up")
  /\ IF history_index > 0
     THEN /\ history_index' = history_index - 1
          /\ \E v \in HistoryRead(history, history_index - 1) : buf' = Strncpy(v)
          /\ slots' = {history_index - 1}
          /\ pos' = Len(buf')
          /\ original_prefix_length' = 0
          /\ DropCompletions
     ELSE UNCHANGED <<history_index, buf, pos, original_prefix_length, completions,
                      completion_index, set_frees, slots>>
  /\ UNCHANGED <<term, term0, oldt, rl>>
  /\ UNCHANGED <<history, history_count, all_lines, displayed>>
  /\ UNCHANGED <<now, queueVars, threadVars, procVars, envVars, jobVars, outVars, basicVars>>

\* Escape [ B: Down
RlDown ==
  /\ KeyRead("Down")
  /\ IF history_index < history_count
     THEN /\ IF history_index < history_count - 1
             THEN /\ history_index' = history_index + 1
                  /\ \E v \in HistoryRead(history, history_index + 1) : buf' = Strncpy(v)
                  /\ slots' = {history_index + 1}
             ELSE /\ buf' = <<>>
                  /\ UNCHANGED <<history_index, slots>>
          /\ pos' = Len(buf')
          /\ original_prefix_length' = 0
          /\ DropCompletions
     ELSE UNCHANGED <<history_index, buf, pos, original_prefix_length, completions,
                      completion_index, set_frees, slots>>
  /\ UNCHANGED <<term, term0, oldt, rl>>
  /\ UNCHANGED <<history, history_count, all_lines, displayed>>
  /\ UNCHANGED <<now, queueVars, threadVars, procVars, envVars, jobVars, outVars, basicVars>>

\* Left stepping back without wrapping around
RlLeft_nowrap ==
  /\ KeyRead("Left")
  /\ IF completions.held /\ completion_count > 0
     THEN /\ completion_index' = completion_index - 1
          /\ buf' = IF completion_index' >= 0
                    THEN Strncpy(completions.list[completion_index' + 1]) ELSE buf
          /\ pos' = Len(buf')
     ELSE /\ pos' = IF pos > 0 THEN pos - 1 ELSE pos
          /\ UNCHANGED <<completion_index, buf>>
  /\ UNCHANGED <<term, term0, oldt, rl, completions, original_prefix_length,
                 history_index, set_frees>>
  /\ UNCHANGED <<now, queueVars, threadVars, procVars, envVars, histVars, jobVars, outVars, basicVars>>

\* Escape [ D: Left
RlLeft ==
  /\ KeyRead("Left")
  /\ IF completions.held /\ completion_count > 0
     THEN /\ completion_index' =
               (completion_index - 1 + completion_count) % completion_count
          /\ buf' = Strncpy(completions.list[completion_index' + 1])
          /\ pos' = Len(buf')
     ELSE /\ pos' = IF pos > 0 THEN pos - 1 ELSE pos
          /\ UNCHANGED <<completion_index, buf>>
  /\ UNCHANGED <<term, term0, oldt, rl, completions, original_prefix_length,
                 history_index, set_frees>>
  /\ UNCHANGED <<now, queueVars, threadVars, procVars, envVars, histVars, jobVars, outVars, basicVars>>

\* Escape [ C: Right
RlRight ==
  /\ KeyRead("Right")
  /\ IF completions.held /\ completion_count > 0
     THEN /\ completion_index' = (completion_index + 1) % completion_count
          /\ buf' = Strncpy(completions.list[completion_index' + 1])
          /\ pos' = Len(buf')
     ELSE /\ pos' = IF pos < Len(buf) THEN pos + 1 ELSE pos
          /\ UNCHANGED <<completion_index, buf>>
  /\ UNCHANGED <<term, term0, oldt, rl, completions, original_prefix_length,
                 history_index, set_frees>>
  /\ UNCHANGED <<now, queueVars, threadVars, procVars, envVars, histVars, jobVars, outVars, basicVars>>

\* Enter: the line is cut at pos and the loop ends; the set is freed in the
\* handler and, its pointer not being reset, once more after the loop (the
\* second free of the same array either passes unnoticed or aborts the
\* process); then restoreInputBuffering and the return of pos
RlEnter(passes, setok, v) ==
  /\ KeyRead("Enter")
  /\ buf' = SubSeq(buf, 1, pos)
  /\ original_prefix_length' = 0
  /\ set_frees' = IF completions.held THEN 2 ELSE 0
  /\ IF completions.held /\ ~passes
     THEN /\ rl' = "aborted"
          /\ ExitProcess("readLine_free")
          /\ UNCHANGED term
     ELSE /\ rl' = "returned"
          /\ v \in RestoredValues
          /\ term' = IF setok THEN v ELSE term
          /\ UNCHANGED <<proc, exit_at>>
  /\ UNCHANGED <<term0, oldt, pos, completions, completion_index, history_index>>
  /\ UNCHANGED <<now, queueVars, threadVars, strtok_save, sigchld, children, envVars,
                 histVars, jobVars, outVars, basicVars>>

\* Backspace (127 or 8)
RlBackspace ==
  /\ KeyRead("Backspace")
  /\ IF pos > 0
     THEN /\ pos' = pos - 1
          /\ buf' = SubSeq(buf, 1, pos - 1)
          /\ IF pos - 1 < original_prefix_length
             THEN /\ original_prefix_length' = pos - 1
                  /\ DropCompletions
             ELSE UNCHANGED <<original_prefix_length, completions, completion_index,
                              set_frees>>
     ELSE UNCHANGED <<pos, buf, original_prefix_length, completions, completion_index,
                      set_frees>>
  /\ UNCHANGED <<term, term0, oldt, rl, history_index>>
  /\ UNCHANGED <<now, queueVars, threadVars, procVars, envVars, histVars, jobVars, outVars, basicVars>>

\* the last branch: buf[pos++] = c; buf[pos] = '\0' when there is room
StoreByte(c) ==
  /\ IF pos < BufSize - 1
     THEN /\ buf' = Append(SubSeq(buf, 1, pos), c)
          /\ pos' = pos + 1
          /\ IF original_prefix_length > 0 /\ pos + 1 > original_prefix_length
             THEN /\ original_prefix_length' = pos + 1
                  /\ DropCompletions
             ELSE UNCHANGED <<original_prefix_length, completions, completion_index,
                              set_frees>>
     ELSE UNCHANGED <<pos, buf, original_prefix_length, completions, completion_index,
                      set_frees>>
  /\ UNCHANGED <<term, term0, oldt, rl, history_index>>
  /\ UNCHANGED <<now, queueVars, threadVars, procVars, typed, accepted, handed,
                 histVars, jobVars, outVars, basicVars>>

\* a printable byte
RlByte(c) ==
  /\ KeyRead(c)
  /\ StoreByte(c)
  /\ UNCHANGED eof

\* getchar returns EOF: it is none of the keys above, so (char)EOF is stored
\* like a printable byte and the loop goes on; getchar returns EOF from then on
RlEOF ==
  /\ KeyRead("EOF")
  /\ eof' = TRUE
  /\ StoreByte(EOFByte)

\* --------------------------------------------------------------- history
\* addToHistory
\* the index addToHistory writes at
WriteSlot(count) == count % MAX_HISTORY

AddToHistory(line) ==
  /\ history' = [history EXCEPT ![WriteSlot(history_count)] = line]
  /\ history_count' = history_count + 1
  /\ all_lines' = Append(all_lines, line)

\* main after readLine has returned: a result <= 0 ends the loop, any other
\* line is added to the history
MainAccept ==
  /\ Running
  /\ pc[Main] = "readLine"
  /\ rl = "returned"
  /\ rl' = "idle"
  /\ IF pos <= 0
     THEN /\ pc' = [pc EXCEPT ![Main] = "after_loop"]
          /\ UNCHANGED histVars
     ELSE /\ history_count < MaxAccepted
          /\ AddToHistory(buf)
          /\ slots' = {WriteSlot(history_count)}
          /\ UNCHANGED <<pc, displayed>>
  /\ UNCHANGED <<term, term0, oldt, buf, pos, completions, completion_index,
                 original_prefix_length, history_index, set_frees, last_key, nkeys>>
  /\ UNCHANGED <<now, queueVars, command, token, args, background, stage, wait_pid,
                 pending, to_execute, earliest_time, deadline, procVars, envVars, jobVars, outVars, basicVars>>

\* displayHistory after count lines: the rows "number  text" it prints
DisplaySlots(count) ==
  LET start == IF count > HistoryShown THEN count - HistoryShown ELSE 0
  IN  start..(count - 1)

HistoryRows(h, count) ==
  LET start == IF count > HistoryShown THEN count - HistoryShown ELSE 0
  IN  { [k \in 1..(count - start) |-> <<start + k, f[start + k - 1]>>] :
          f \in { g \in [start..(count - 1) -> UNION {HistoryRead(h, i) : i \in start..(count - 1)}] :
                    \A i \in start..(count - 1) : g[i] \in HistoryRead(h, i) } }

\* a whole line is read, added to the history and, when it is the history
\* directive, listed
HistLine(line) ==
  /\ Running
  /\ pc[Main] = "readLine"
  /\ rl = "idle"
  /\ history_count < MaxAccepted
  /\ AddToHistory(line)
  /\ IF line = <<"history">>
     THEN /\ displayed' \in HistoryRows(history', history_count')
          /\ slots' = {WriteSlot(history_count)} \cup DisplaySlots(history_count')
     ELSE /\ displayed' = <<>>
          /\ slots' = {WriteSlot(history_count)}
  /\ UNCHANGED <<now, queueVars, threadVars, procVars, envVars, lineVars, jobVars, outVars, basicVars>>

\* ------------------------------------------------------------------- Next
\* Each specification below is the program run on one set of typed lines;
\* the actions left out of a specification are those its lines cannot reach.

\* the steps of processDelayedCommands and of addDelayedCommand
QueueStep ==
  \/ Tick
  \/ MainDispatch
  \/ AddLock
  \/ AddInsert
  \/ WLock
  \/ WCheck
  \/ WUnlock
  \/ WNoDue
  \/ WTimeout
  \/ WCResume
  \/ WTResume
  \/ WSpurious
  \/ WDispatch
  \/ \E t \in Threads : StrtokFirst(t)
  \/ \E t \in Threads : StrtokNext(t)

\* executeCommand
CommandStep ==
  \/ \E t \in Threads, ok \in BOOLEAN : EcFork(t, ok)
  \/ \E t \in Threads : EcWait(t)
  \/ \E p \in 1..MaxChildren : ChildExit(p)

\* handlePipes
PipeStep ==
  \/ \E t \in Threads, ok \in BOOLEAN : HpPipe(t, ok)
  \/ \E t \in Threads, ok \in BOOLEAN, survives \in BOOLEAN : HpFork(t, ok, survives)
  \/ \E t \in Threads : HpClose(t)
  \/ \E t \in Threads : HpWait(t)

\* the exit directive and the end of main
ExitStep ==
  \/ ExitCancel
  \/ ExitJoin
  \/ ExitDestroy
  \/ MainAfterLoop
  \/ WCancelled

\* ------------------------------------------- the basic shell loop (first main)
\* everything outside the basic loop
shellVars == <<now, queueVars, threadVars, procVars, envVars, lineVars, histVars, jobVars,
               outVars>>

\* fgets returns a line; the newline is cut off, i = 0 and the first strtok
\* gives the first word or NULL
BasicFgets(line) ==
  /\ basic_pc = "fgets"
  /\ basic_lines < MaxBasicLines
  /\ basic_lines' = basic_lines + 1
  /\ basic_i' = 0
  /\ basic_args' = <<>>
  /\ basic_writes' = {}
  /\ basic_token' = IF line = <<>> THEN NULL ELSE Head(line)
  /\ basic_rest' = IF line = <<>> THEN <<>> ELSE Tail(line)
  /\ basic_pc' = "strtok_loop"
  /\ UNCHANGED shellVars

\* fgets returns NULL: break, return 0
BasicEof ==
  /\ basic_pc = "fgets"
  /\ basic_pc' = "returned"
  /\ UNCHANGED <<basic_rest, basic_token, basic_i, basic_args, basic_writes, basic_lines>>
  /\ UNCHANGED shellVars

\* one pass of while (token != NULL && i < 10): args[i++] = token and the next
\* strtok
BasicStore ==
  /\ basic_pc = "strtok_loop"
  /\ basic_token # NULL
  /\ basic_i < BASIC_ARGS
  /\ basic_args' = Append(basic_args, basic_token)
  /\ basic_writes' = basic_writes \cup {basic_i}
  /\ basic_i' = basic_i + 1
  /\ basic_token' = IF basic_rest = <<>> THEN NULL ELSE Head(basic_rest)
  /\ basic_rest' = IF basic_rest = <<>> THEN <<>> ELSE Tail(basic_rest)
  /\ UNCHANGED <<basic_pc, basic_lines>>
  /\ UNCHANGED shellVars

\* the loop ends and args[i] = NULL is written.  With i = 10 the write is past
\* the end of the array: the process either goes on (survives) or is ended.
BasicTerminate(survives) ==
  /\ basic_pc = "strtok_loop"
  /\ ~(basic_token # NULL /\ basic_i < BASIC_ARGS)
  /\ basic_writes' = basic_writes \cup {basic_i}
  /\ basic_pc' = IF basic_i >= BASIC_ARGS /\ ~survives THEN "crashed" ELSE "dispatch"
  /\ UNCHANGED <<basic_rest, basic_token, basic_i, basic_args, basic_lines>>
  /\ UNCHANGED shellVars

\* the rest of the loop body: strcmp(args[0], ...) reads through a NULL
\* pointer when the line had no word (the process goes on or is ended); exit
\* leaves the loop; cd, or fork, execvp and wait, lead back to fgets
BasicDispatch(survives) ==
  /\ basic_pc = "dispatch"
  /\ basic_pc' = IF basic_args = <<>>
                  THEN (IF survives THEN "fgets" ELSE "crashed")
                  ELSE IF basic_args[1] = "exit" THEN "returned" ELSE "fgets"
  /\ UNCHANGED <<basic_rest, basic_token, basic_i, basic_args, basic_writes, basic_lines>>
  /\ UNCHANGED shellVars

\* the lines typed into the basic loop: up to MaxWords words, or exit
BasicLines == {[k \in 1..n |-> "w"] : n \in 0..MaxWords} \cup {<<"exit">>, <<"cd", "w">>}

BasicNext ==
  \/ \E line \in BasicLines : BasicFgets(line)
  \/ BasicEof
  \/ BasicStore
  \/ \E survives \in BOOLEAN : BasicTerminate(survives)
  \/ \E survives \in BOOLEAN : BasicDispatch(survives)

BasicSpec == Init /\ [][BasicNext]_vars

\* the scheduler: the user types delay lines only
SchedLines == { <<"delay", "1", "x">>, <<"delay", "3", "y">> }

SchedNext ==
  \/ \E line \in SchedLines : MainReadLine(line)
  \/ QueueStep
  \/ CommandStep

SchedSpec == Init /\ [][SchedNext]_vars

\* shutdown: the user types delay lines and exit
ExitLines == { <<"delay", "1", "x">>, <<"exit">> }

ExitNext ==
  \/ \E line \in ExitLines : MainReadLine(line)
  \/ QueueStep
  \/ CommandStep
  \/ ExitStep

ExitSpec == Init /\ [][ExitNext]_vars

\* the read-eval loop: the user types an empty line, a command and a delayed
\* pipeline, or the input ends
LoopLines == { <<>>, <<"x">>, <<"delay", "1", "x", "|", "y">> }

LoopNext ==
  \/ \E line \in LoopLines : MainReadLine(line)
  \/ MainReadEOF
  \/ MainAfterLoop
  \/ QueueStep
  \/ CommandStep
  \/ PipeStep

LoopSpec == Init /\ [][LoopNext]_vars

\* the same run under fair scheduling: every thread that can take a step
\* eventually takes one, the clock advances, and launched programs terminate;
\* the user may stop typing, and a wait need not wake spuriously
MainProgress ==
  \/ StrtokFirst(Main)
  \/ StrtokNext(Main)
  \/ MainDispatch
  \/ AddLock
  \/ AddInsert

WorkerProgress ==
  \/ WLock
  \/ WCheck
  \/ WUnlock
  \/ WNoDue
  \/ WTimeout
  \/ WCResume
  \/ WTResume
  \/ StrtokFirst(Worker)
  \/ StrtokNext(Worker)
  \/ WDispatch
  \/ \E ok \in BOOLEAN : EcFork(Worker, ok)
  \/ EcWait(Worker)

SchedFairSpec ==
  /\ SchedSpec
  /\ WF_vars(Tick)
  /\ WF_vars(MainProgress)
  /\ WF_vars(WorkerProgress)
  /\ \A p \in 1..MaxChildren : WF_vars(ChildExit(p))


\* the line editor: keys typed into readLine, and main taking its result
EditNext ==
  \/ \E getok \in BOOLEAN, setok \in BOOLEAN : RlCall(getok, setok)
  \/ RlTab
  \/ RlUp
  \/ RlDown
  \/ RlLeft
  \/ RlRight
  \/ \E passes \in BOOLEAN, setok \in BOOLEAN, v \in TermValues : RlEnter(passes, setok, v)
  \/ RlBackspace
  \/ \E c \in Bytes : RlByte(c)
  \/ RlEOF
  \/ MainAccept
  \/ MainAfterLoop

EditSpec == Init /\ [][EditNext]_vars

\* the history log: whole lines, among them the history directive
HistLines == { <<"x">>, <<"y">>, <<"history">> }

HistNext == \E line \in HistLines : HistLine(line)

HistSpec == Init /\ [][HistNext]_vars


\* launching programs: a background command, a pipeline and a delayed command
LaunchLines == { <<"x", "&">>, <<"x", "|", "y">>, <<"delay", "1", "x">> }

LaunchNext ==
  \/ \E line \in LaunchLines : MainReadLine(line)
  \/ QueueStep
  \/ CommandStep
  \/ PipeStep

LaunchSpec == Init /\ [][LaunchNext]_vars

\* wildcards: a command with patterns typed at the prompt, and the same delayed
WildLines == { <<"x", "*", "[z]">>, <<"delay", "1", "x", "*", "[z]">> }

WildNext ==
  \/ \E line \in WildLines : MainReadLine(line)
  \/ QueueStep
  \/ CommandStep

WildSpec == Init /\ [][WildNext]_vars

\* delayed background commands: every typed line is `delay <n> <command> &`
BgDelayLines == { <<"delay", "1", "x", "&">>, <<"delay", "2", "y", "&">> }

BgDelayNext ==
  \/ \E line \in BgDelayLines : MainReadLine(line)
  \/ QueueStep
  \/ CommandStep

BgDelaySpec == Init /\ [][BgDelayNext]_vars

\* pipelines with an empty segment: at the start of a typed pipeline, and at the
\* end of a delayed one
EmptySegLines == { <<"|", "x">>, <<"delay", "1", "x", "|">> }

EmptySegNext ==
  \/ \E line \in EmptySegLines : MainReadLine(line)
  \/ QueueStep
  \/ PipeStep
  \/ \E p \in 1..MaxChildren : ChildExit(p)

EmptySegSpec == Init /\ [][EmptySegNext]_vars

\* pipelines typed at the prompt: three stages in the foreground, two in the
\* background; the worker has nothing to run and stays in its empty-queue wait
PipeLines == { <<"x", "|", "y", "|", "z">>, <<"x", "|", "y", "&">> }

PipeNext ==
  \/ \E line \in PipeLines : MainReadLine(line)
  \/ StrtokFirst(Main)
  \/ StrtokNext(Main)
  \/ MainDispatch
  \/ WLock
  \/ WCheck
  \/ WSpurious
  \/ WCResume
  \/ PipeStep
  \/ \E p \in 1..MaxChildren : ChildExit(p)

PipeSpec == Init /\ [][PipeNext]_vars

\* redirection typed at the prompt: input from an existing file, output with
\* a word after the file name, an operator given twice, an operator without a
\* file name, and input from a missing file
RedirLines == { <<"x", "<", "f">>, <<"x", "y", ">", "g", "z">>, <<"x", ">", "g", ">", "h">>,
                <<"x", ">>">>, <<"x", "<", "nofile">> }

RedirNext ==
  \/ \E line \in RedirLines : MainReadLine(line)
  \/ StrtokFirst(Main)
  \/ StrtokNext(Main)
  \/ MainDispatch
  \/ WLock
  \/ WCheck
  \/ WSpurious
  \/ WCResume
  \/ CommandStep

RedirSpec == Init /\ [][RedirNext]_vars

\* signal dispositions: single commands and pipelines typed at the prompt, in
\* the foreground and in the background; the worker stays in its empty-queue
\* wait
SigLines == { <<"x">>, <<"x", "&">>, <<"x", "|", "y">>, <<"x", "|", "y", "&">> }

SigNext ==
  \/ \E line \in SigLines : MainReadLine(line)
  \/ StrtokFirst(Main)
  \/ StrtokNext(Main)
  \/ MainDispatch
  \/ WLock
  \/ WCheck
  \/ WSpurious
  \/ WCResume
  \/ CommandStep
  \/ PipeStep

SigSpec == Init /\ [][SigNext]_vars

\* long stages: a pipeline whose first stage names every file of d, and one
\* whose first stage names the files of the current directory
CapLines == { <<"x", "d/*", "|", "y">>, <<"x", "*", "|", "y">> }

CapNext ==
  \/ \E line \in CapLines : MainReadLine(line)
  \/ StrtokFirst(Main)
  \/ StrtokNext(Main)
  \/ MainDispatch
  \/ WLock
  \/ WCheck
  \/ WSpurious
  \/ WCResume
  \/ PipeStep
  \/ \E p \in 1..MaxChildren : ChildExit(p)

CapSpec == Init /\ [][CapNext]_vars

\* single commands: in the foreground, in the background, and delayed
WaitLines == { <<"x">>, <<"x", "&">>, <<"delay", "1", "x">> }

WaitNext ==
  \/ \E line \in WaitLines : MainReadLine(line)
  \/ QueueStep
  \/ CommandStep

WaitSpec == Init /\ [][WaitNext]_vars

\* ------------------------------------------------------------ the claims

\* the queue is in non-decreasing scheduled_time order
Sorted(q) ==
  \A i, j \in 1..Len(q) : i < j => q[i].scheduled_time <= q[j].scheduled_time

\* a step of the worker that takes an entry out of the queue
Removal == delayed_command_count' < delayed_command_count

\* the positions of the worker inside executeDelayedCommand
ExecPcs == {"strtok_first", "strtok_loop", "ec_fork", "ec_wait",
            "hp_pipe", "hp_fork", "hp_close", "hp_wait"}

\* C1: the worker removes an entry for execution only if its scheduled_time
\* is at most the time sampled under the lock in that iteration.
C1_NeverBeforeDue ==
  [][Removal => to_execute'.scheduled_time <= now]_vars

\* a due entry has been removed while an entry that is not due stays queued
C1_Witness ==
  /\ pc[Worker] = "w_unlock"
  /\ to_execute.scheduled_time <= now
  /\ delayed_command_count >= 1
  /\ delayed_commands[1].scheduled_time > now

\* C2: of two entries queued at the same moment, the one with the strictly
\* smaller due time is handed to execution first: no entry left in the queue
\* by a removal is due strictly earlier than the removed one.
C2_AscendingDueOrder ==
  [][Removal => \A k \in 1..Len(delayed_commands') :
                  ~(delayed_commands'[k].scheduled_time < to_execute'.scheduled_time)]_vars

\* "delay 3 y" was typed at time 0 and "delay 1 x" after it at time 1; x is
\* handed to execution while y is still queued
C2_Witness ==
  /\ pc[Worker] = "w_unlock"
  /\ to_execute = [scheduled_time |-> 2, command |-> <<"x">>]
  /\ delayed_commands = <<[scheduled_time |-> 3, command |-> <<"y">>]>>

C4_NoLostWakeup ==
  \A n \in 1..MaxLines : (accepted >= n) ~> (handed >= n \/ proc = "ended")

\* a command was inserted while the worker was blocked in pthread_cond_wait,
\* and every accepted command has been handed over
C4_Witness ==
  /\ accepted >= 2
  /\ handed = accepted
  /\ pc[Worker] = "w_condwait"

\* C5: the worker does not hold the queue mutex anywhere inside
\* executeDelayedCommand.
C5_ExecuteOutsideLock ==
  pc[Worker] \in ExecPcs => mutex_owner # Worker

\* the producer holds the mutex while a launched delayed program is running
C5_Witness ==
  /\ pc[Worker] = "ec_wait"
  /\ children[wait_pid[Worker]] = "running"
  /\ mutex_owner = Main

\* C6: the queue is the only state the two threads share: whatever the other
\* thread does meanwhile, the words a thread has when its tokenization loop
\* ends are the words of its own line.
C6_TokenizationIsolated ==
  \A t \in Threads : TokenizeDone(t) => args[t] = Tokenize(command[t])

\* C7: on exit, the mutex and the condition variable are destroyed only after
\* the worker has terminated, and main returns only after they are destroyed.
C7_JoinBeforeDestroy ==
  /\ (cancel_pending /\ (mutex_destroys > 0 \/ cond_destroys > 0))
       => pc[Worker] = "terminated"
  /\ exit_at = "return_after_exit"
       => (pc[Worker] = "terminated" /\ mutex_destroys > 0 /\ cond_destroys > 0)

\* the join has returned for a worker that the exit found inside waitpid for
\* a delayed program
C7_Witness ==
  /\ pc[Main] = "exit_destroy"
  /\ pc[Worker] = "terminated"
  /\ wait_pid[Worker] # 0

\* C8: the mutex is unlocked at the moment the exit directive destroys it.
C8_DestroyedUnlocked ==
  (cancel_pending /\ mutex_destroys > 0) => ~destroyed_locked

\* C9: the shell process ends only through the exit directive or end of
\* input on its read loop.
C9_EndsOnlyByExitOrEof ==
  proc = "ended" =>
    \/ exit_at = "return_after_exit"
    \/ (exit_at = "return_after_readLine" /\ eof)

\* C10: a failed fork does not end the shell process.
C10_ForkFailureKeepsShell ==
  exit_at \notin {"executeCommand_fork", "handlePipes_fork"}

\* a step in which readLine handles the key k
KeyStep(k) == nkeys' = nkeys + 1 /\ last_key' = k

\* a non-empty completion set is held
SetActive == completions.held /\ completion_count > 0

\* C11: when getchar returns EOF the read loop ends and readLine returns:
\* after the key EOF, readLine is not back at getchar in its loop.
C11_ReadLineEndsAtEof ==
  last_key = "EOF" => rl # "loop"

\* C12: when readLine returns, the terminal attributes are those in effect
\* when it was called, whatever the terminal-attribute calls did.
C12_TerminalRestored ==
  rl = "returned" => term = term0

\* C13: after a Tab that produced k >= 2 candidates and selected candidate 0,
\* an immediately following Tab selects candidate (index + 1) mod k of the
\* same set and puts it in the buffer.
C13_TabCycles ==
  [][(last_key = "Tab" /\ completions.held /\ completion_count >= 2
        /\ completion_index = 0 /\ KeyStep("Tab"))
       => (/\ completions' = completions
           /\ completion_index' = (completion_index + 1) % completion_count
           /\ buf' = Strncpy(completions.list[completion_index' + 1]))]_vars

\* C14: with no completion set active, Left and Right change neither the
\* buffer nor the position where the next byte is appended, nor the string a
\* following Enter finalizes.
C14_ArrowsDisplayOnly ==
  [][(~SetActive /\ (KeyStep("Left") \/ KeyStep("Right")))
       => (/\ buf' = buf
           /\ pos' = pos
           /\ SubSeq(buf', 1, pos') = SubSeq(buf, 1, pos))]_vars

\* C15: a printable byte that is appended while a completion set is active
\* and that extends the buffer past the prefix length that produced the set
\* discards the set, for every prefix length including 0.
C15_ByteDiscardsSet ==
  [][(SetActive /\ (\E c \in Bytes : KeyStep(c)) /\ pos' = pos + 1
        /\ pos' > original_prefix_length)
       => ~completions'.held]_vars

\* the rows the history directive has to list after the lines in q
ExpectedRows(q) ==
  LET n == Len(q)
      m == Min({n, HistoryShown})
  IN  [k \in 1..m |-> <<n - m + k, q[n - m + k]>>]

\* C16: after any number n of accepted lines, the history directive lists
\* exactly the min(n, HistoryShown) most recent lines, each with its 1-based
\* insertion index.
C16_HistoryListsMostRecent ==
  (all_lines # <<>> /\ all_lines[Len(all_lines)] = <<"history">>)
    => displayed = ExpectedRows(all_lines)

\* the thread t returns from handlePipes after its waits
ReturnsFromPipeline(t) == pc[t] = "hp_wait" /\ pc'[t] = ReturnPc(t)

\* C17: a foreground pipeline returns to its caller only after all of its
\* own stage processes have terminated, whatever other children exist.
C17_WaitsForOwnStages ==
  [][\A t \in Threads :
       ReturnsFromPipeline(t) => \A p \in stage_pids[t] : children[p] # "running"]_vars

\* the thread t leaves the fork of executeCommand
LeavesFork(t) == pc[t] = "ec_fork" /\ pc'[t] # "ec_fork"

\* C18: with the background flag set executeCommand returns to its caller
\* with the new child still running; with the flag clear it goes on to wait
\* and returns only when that child is no longer running.
C18_BackgroundNoWaitForegroundWaits ==
  [][\A t \in Threads :
       /\ (LeavesFork(t) /\ background[t])
            => (/\ pc'[t] = ReturnPc(t)
                /\ \E p \in 1..MaxChildren :
                     children[p] = "none" /\ children'[p] = "running")
       /\ (LeavesFork(t) /\ ~background[t])
            => (pc'[t] = "ec_wait" /\ children'[wait_pid'[t]] = "running")
       /\ (pc[t] = "ec_wait" /\ pc'[t] = ReturnPc(t))
            => children[wait_pid[t]] # "running"]_vars

\* main waits for its foreground child while the child of an earlier
\* background command, which it did not wait for, is still running
C18_Witness ==
  /\ pc[Main] = "ec_wait"
  /\ children[wait_pid[Main]] = "running"
  /\ sigchld = "IGN"
  /\ accepted = 0
  /\ \E p \in 1..MaxChildren : p # wait_pid[Main] /\ children[p] = "running"

AllDefault == [INT |-> "DFL", QUIT |-> "DFL", TSTP |-> "DFL", CHLD |-> "DFL"]

\* C19: every launched program starts with default dispositions for the
\* interrupt, quit, terminal-stop and child-termination signals.
C19_ChildrenStartWithDefaults ==
  \A p \in 1..MaxChildren : children[p] # "none" => child_sig[p] = AllDefault

\* while the shell ignores SIGCHLD, a pipeline stage forked by main and a
\* delayed command forked by the worker are running
C19_Witness ==
  /\ sigchld = "IGN"
  /\ \E p \in stage_pids[Main] :
       children[p] = "running" /\ child_sig[p].CHLD = "DFL"
  /\ pc[Worker] = "ec_wait"
  /\ children[wait_pid[Worker]] = "running"
  /\ child_sig[wait_pid[Worker]].CHLD = "DFL"

\* the argument vector the main loop hands to the execution engine for a
\* typed text: tokenization, removal of a trailing "&", wildcard expansion
MainVector(text) == expandWildcards(StripBackground(Tokenize(text)))

\* C20: when executeDelayedCommand hands a matured command to the execution
\* engine, the argument vector is the one the main loop builds for the same
\* text typed at the prompt, wildcard expansion included.
C20_DelayedParsedAsTyped ==
  pc[Worker] \in {"ec_fork", "hp_pipe"} => args[Worker] = MainVector(command[Worker])

\* C21: a delayed command keeps its own background handling.  Where every
\* typed line is `delay <n> <command> &`, each command the worker hands to the
\* execution engine is run in the background: the flag is set at the call and
\* the worker never waits for the child.
C21_DelayedKeepsBackground ==
  /\ pc[Worker] \in {"ec_fork", "hp_pipe"} => background[Worker]
  /\ pc[Worker] # "ec_wait"

QueueFullMessage == "Delayed command queue is full."

\* C22: addDelayedCommand on a full queue reports the condition, leaves the
\* queue and its count as they are, releases the mutex and does not disturb
\* the worker; delayed_command_count is within 0..MAX_DELAYED_COMMANDS in
\* every reachable state.
C22_FullQueueDropsCommand ==
  /\ [](delayed_command_count \in 0..MAX_DELAYED_COMMANDS)
  /\ [][(/\ pc[Main] = "add_insert"
         /\ pc'[Main] # "add_insert"
         /\ delayed_command_count >= MAX_DELAYED_COMMANDS)
        => (/\ QueueFullMessage \in stderr'
            /\ delayed_commands' = delayed_commands
            /\ mutex_owner' = "none"
            /\ pc'[Worker] = pc[Worker]
            /\ proc' = "running")]_vars

C22_Witness ==
  /\ QueueFullMessage \in stderr
  /\ delayed_command_count = MAX_DELAYED_COMMANDS
  /\ mutex_owner = "none"
  /\ pc[Main] = "readLine"

\* the positions from which a thread's next step reads or writes
\* delayed_commands or delayed_command_count
InQueueSection(t) ==
  IF t = Main THEN pc[Main] = "add_insert" ELSE pc[Worker] = "w_check"

\* C26: a thread reads or writes the queue only while it holds queue_mutex,
\* the queue changes only in a step of the holder, and the two threads are
\* never in a queue-accessing section at the same time.
C26_QueueAccessUnderMutex ==
  /\ [](\A t \in Threads : InQueueSection(t) => mutex_owner = t)
  /\ [](~(InQueueSection(Main) /\ InQueueSection(Worker)))
  /\ [][delayed_commands' # delayed_commands =>
          \E t \in Threads : mutex_owner = t /\ InQueueSection(t) /\ pc'[t] # pc[t]]_vars

\* the worker is scanning a non-empty queue while main waits for the mutex
C26_Witness ==
  /\ pc[Main] = "add_lock"
  /\ pc[Worker] = "w_check"
  /\ mutex_owner = Worker
  /\ delayed_command_count > 0

\* the smallest scheduled_time in a non-empty queue
NearestDue(q) == Min({q[k].scheduled_time : k \in 1..Len(q)})

\* C27: when the queue is non-empty and nothing is due, the duration of the
\* timed wait the worker starts is the smallest scheduled_time in the queue
\* minus the current time.
C27_WaitsUntilNearestDue ==
  [][(pc[Worker] = "w_nodue" /\ pc'[Worker] = "w_timedwait")
       => deadline' - now = NearestDue(delayed_commands) - now]_vars

\* the positions of a thread inside handlePipes
HpPcs == {"hp_pipe", "hp_fork", "hp_close", "hp_wait"}

\* some stage of the pipeline has no word
EmptySegment(a) == \E i \in 0..(NumCommands(a) - 1) : command_args(a, i) = <<>>

\* C23: a pipeline with an empty segment is abandoned as a user error: no
\* stage of it is launched.
C23_EmptySegmentAbandoned ==
  \A t \in Threads :
    (pc[t] \in HpPcs /\ EmptySegment(args[t])) => stage_pids[t] = {}

\* the child that a fork step creates
Forked(p) == children[p] = "none" /\ children'[p] = "running"

\* C24: in a pipeline of N stages, stage i > 0 has its standard input bound
\* to the read end of pipe i-1 and stage i < N-1 has its standard output bound
\* to the write end of pipe i; the first stage's input and the last stage's
\* output stay on the terminal.
C24_StagesWiredInOrder ==
  [][\A t \in Threads, p \in 1..MaxChildren :
       (pc[t] = "hp_fork" /\ pc'[t] \in {"hp_fork", "hp_close"} /\ Forked(p))
         => LET i == stage[t]
                N == NumCommands(args[t])
                c == child_proc'[p]
            IN  /\ c.stdin  = IF i > 0     THEN PipeEnd(t, i - 1, "r") ELSE Terminal
                /\ c.stdout = IF i < N - 1 THEN PipeEnd(t, i, "w")     ELSE Terminal]_vars

\* a middle stage is running between two pipes while its neighbours run
C24_Witness ==
  \E p, q, r \in 1..MaxChildren :
    /\ children[p] = "running" /\ children[q] = "running" /\ children[r] = "running"
    /\ child_proc[q].stdin.kind = "pipe" /\ child_proc[q].stdout.kind = "pipe"
    /\ child_proc[p].stdout.kind = "pipe"
    /\ child_proc[p].stdout.index = child_proc[q].stdin.index
    /\ child_proc[r].stdin.kind = "pipe"
    /\ child_proc[r].stdin.index = child_proc[q].stdout.index

RedirOps == {"<", ">", ">>"}

\* the positions (0-based) of the operators whose redirection is carried out:
\* the last occurrence of each operator, when a word that an earlier
\* redirection has not already replaced follows it
Processed(a) ==
  LET inPos     == OpPos(a, "<")
      outPos    == OpPos(a, ">")
      appendPos == OpPos(a, ">>")
      inDone    == inPos # -1 /\ inPos + 1 < Len(a)
      outDone   == outPos # -1 /\ outPos + 1 < Len(a) /\ ~(inDone /\ outPos + 1 = inPos)
      appDone   == /\ appendPos # -1 /\ appendPos + 1 < Len(a)
                   /\ ~(inDone /\ appendPos + 1 = inPos)
                   /\ ~(outDone /\ appendPos + 1 = outPos)
  IN  (IF inDone THEN {inPos} ELSE {}) \cup (IF outDone THEN {outPos} ELSE {})
        \cup (IF appDone THEN {appendPos} ELSE {})

\* the vector with the processed operator words taken out and the rest kept
OperatorsRemoved(a) ==
  LET keep == {j \in 0..(Len(a) - 1) : j \notin Processed(a)}
      RECURSIVE From(_)
      From(j) == IF j >= Len(a) THEN <<>>
                 ELSE (IF j \in keep THEN <<a[j + 1]>> ELSE <<>>) \o From(j + 1)
  IN  From(0)

\* a step of executeCommand that launches a program for thread t as child p
Launches(t, p) ==
  /\ pc[t] = "ec_fork"
  /\ Forked(p)
  /\ child_proc'[p].image = "program"

\* C25 as stated: the launched program's vector is args with only the
\* processed operator words removed, the file names staying in it.
C25_OnlyOperatorRemoved ==
  [][\A t \in Threads, p \in 1..MaxChildren :
       Launches(t, p) => child_proc'[p].argv = OperatorsRemoved(args[t])]_vars

\* C25 as the code has it: the launched program's vector ends just before
\* the first processed operator; that operator, its file name and every
\* later word are not passed.
C25_VectorEndsAtOperator ==
  [][\A t \in Threads, p \in 1..MaxChildren :
       Launches(t, p) =>
         child_proc'[p].argv =
           IF Processed(args[t]) = {} THEN args[t]
           ELSE SubSeq(args[t], 1, Min(Processed(args[t])))]_vars

\* a program runs with its output redirected and without the file name or
\* the word after it in its vector
C25_Witness ==
  \E p \in 1..MaxChildren :
    /\ children[p] = "running"
    /\ child_proc[p].image = "program"
    /\ child_proc[p].stdout = File("g", "w")
    /\ child_proc[p].argv = <<"x", "y">>

\* C28: every access to the history array, by addToHistory, displayHistory
\* and the Up/Down recall, uses an index in 0..MAX_HISTORY-1, for every
\* number of accepted lines.
C28_HistorySlotsInRange ==
  slots \subseteq 0..(MAX_HISTORY - 1)

\* C29: Down pressed while the newest history entry is shown clears the
\* buffer and moves the browsing position to the new-line position
\* (history_count), from where an Up recalls the newest entry again.
C29_DownPastNewest ==
  [][(KeyStep("Down") /\ history_count > 0 /\ history_index = history_count - 1)
       => (buf' = <<>> /\ history_index' = history_count)]_vars

\* C30: while readLine is in its loop, completion_index is -1 when no set is
\* held and within 0..completion_count-1 when a non-empty set is held; with
\* such a set, Left and Right step the index circularly backward and forward
\* within the same set and put the selected candidate in the buffer.
C30_ArrowsCycleWithinSet ==
  /\ [](rl = "loop" =>
          /\ (~completions.held => completion_index = -1)
          /\ (SetActive => completion_index \in 0..(completion_count - 1)))
  /\ [][(SetActive /\ KeyStep("Left"))
         => (/\ completions' = completions
             /\ completion_index' =
                  (completion_index - 1 + completion_count) % completion_count
             /\ buf' = completions.list[completion_index' + 1])]_vars
  /\ [][(SetActive /\ KeyStep("Right"))
         => (/\ completions' = completions
             /\ completion_index' = (completion_index + 1) % completion_count
             /\ buf' = completions.list[completion_index' + 1])]_vars

\* Left from the first candidate has wrapped to the last one
C30_Witness ==
  /\ rl = "loop"
  /\ last_key = "Left"
  /\ completion_count >= 2
  /\ completion_index = completion_count - 1
  /\ buf = completions.list[completion_count]

\* C38: on every path by which the main loop ends, the queue mutex and the
\* condition variable are each destroyed at most once.
C38_DestroyedAtMostOnce ==
  mutex_destroys <= 1 /\ cond_destroys <= 1

\* C36: every completion set allocated during a readLine call is released
\* exactly once: the array completions points to is never freed a second time.
C36_SetReleasedOnce ==
  set_frees <= 1

\* a step in which readLine renders a candidate inline: Tab with a non-empty
\* new set, Left or Right with a non-empty set held
Rendered ==
  \/ KeyStep("Tab") /\ Len(completions'.list) > 0
  \/ (KeyStep("Left") \/ KeyStep("Right")) /\ SetActive

\* C37: whenever a candidate is rendered inline, the buffer handed to
\* displayInlineCompletions is no longer than the candidate, so the suffix
\* offset lies within the candidate string.
C37_SuffixOffsetInsideCandidate ==
  [][Rendered => InlineOffset(buf) <= Len(completions'.list[completion_index' + 1])]_vars

\* C34: the worker only ever removes the head of the queue: whenever
\* processDelayedCommands removes an entry, the index its scan found is 0, the
\* entry handed to execution is the first one and the rest is the tail.
C34_RemovesOnlyHead ==
  [][Removal => /\ Scan(delayed_commands, now).earliest_index = 0
                /\ to_execute' = Head(delayed_commands)
                /\ delayed_commands' = Tail(delayed_commands)]_vars

\* the worker was late: it has removed a due entry while the entry behind it
\* is due as well
C34_Witness ==
  /\ pc[Worker] = "w_unlock"
  /\ to_execute.scheduled_time <= now
  /\ delayed_command_count >= 1
  /\ delayed_commands[1].scheduled_time <= now

\* a step of addDelayedCommand that puts the pending entry into the queue
Insertion == accepted' = accepted + 1

\* C35: delayed commands with equal due times are executed in the order they
\* were enqueued: an insertion puts the new entry after exactly the entries
\* whose scheduled_time is at most its own, and a removal never takes an
\* entry from behind another one with the same scheduled_time.
C35_FifoAmongEqualDueTimes ==
  /\ [][Insertion =>
          \E k \in 0..Len(delayed_commands) :
            /\ delayed_commands' =
                 SubSeq(delayed_commands, 1, k)
                   \o <<[scheduled_time |-> pending.scheduled_time,
                         command |-> pending.command]>>
                   \o SubSeq(delayed_commands, k + 1, Len(delayed_commands))
            /\ \A j \in 1..Len(delayed_commands) :
                 (j <= k) <=> (delayed_commands[j].scheduled_time
                                 <= pending.scheduled_time)]_vars
  /\ [][Removal =>
          \E k \in 1..Len(delayed_commands) :
            /\ to_execute' = delayed_commands[k]
            /\ \A j \in 1..(k - 1) :
                 delayed_commands[j].scheduled_time
                   # delayed_commands[k].scheduled_time]_vars

\* "delay 3 y" was typed at time 0 and "delay 1 x" at time 2: both are due at
\* 3, and y has been handed to execution while x is still queued
C35_Witness ==
  /\ pc[Worker] = "w_unlock"
  /\ to_execute = [scheduled_time |-> 3, command |-> <<"y">>]
  /\ delayed_commands = <<[scheduled_time |-> 3, command |-> <<"x">>]>>

\* the background single-command path: the parent branch of executeCommand
\* that prints the pid and calls disownProcess
BackgroundSingle(t) ==
  /\ pc[t] = "ec_fork"
  /\ background[t]
  /\ pc'[t] = ReturnPc(t)

\* C33: the shell's SIGCHLD disposition is changed only by the background
\* single-command path, which sets it to ignore; handlePipes and the
\* foreground executeCommand leave it as it is, and once it is ignore it is
\* never default again.
C33_SigchldOnlyByBackgroundSingle ==
  [][/\ sigchld' # sigchld =>
          /\ \E t \in Threads : BackgroundSingle(t)
          /\ sigchld' = "IGN"
     /\ sigchld = "IGN" => sigchld' = "IGN"]_vars

\* SIGCHLD is still at its default after a background pipeline has returned
\* with a stage of it running, and main has just taken the next line
C33_Witness ==
  /\ sigchld = "DFL"
  /\ typed >= 2
  /\ pc[Main] = "strtok_first"
  /\ \E p \in 1..MaxChildren : children[p] = "running" /\ child_proc[p].stdout # Terminal

\* the position (0-based) of the first word of a equal to op, or -1
FirstPos(a, op) ==
  LET S == {j \in 0..(Len(a) - 1) : a[j + 1] = op}
  IN  IF S = {} THEN -1 ELSE Min(S)

\* the word after the first occurrence of op in a, or NULL
FirstTarget(a, op) ==
  IF FirstPos(a, op) = -1 THEN NULL ELSE At(a, FirstPos(a, op) + 1)

\* C32: when an argument vector holds a redirection operator, more than once
\* included, executeCommand applies its first occurrence: the launched
\* program's standard input or output is the file named after that first
\* occurrence.
C32_FirstOccurrenceApplied ==
  [][\A t \in Threads, p \in 1..MaxChildren :
       Launches(t, p) =>
         /\ FirstTarget(args[t], "<") # NULL =>
              child_proc'[p].stdin = File(FirstTarget(args[t], "<"), "r")
         /\ (FirstTarget(args[t], ">") # NULL /\ FirstPos(args[t], ">>") = -1) =>
              child_proc'[p].stdout = File(FirstTarget(args[t], ">"), "w")
         /\ FirstTarget(args[t], ">>") # NULL =>
              child_proc'[p].stdout = File(FirstTarget(args[t], ">>"), "a")]_vars

\* C31: pipe descriptors never leak: no child process holds a pipe descriptor
\* other than its duplicated standard input and output, and a thread that is
\* not between the pipe() calls and the closing loop of handlePipes holds none.
C31_NoPipeDescriptorLeak ==
  /\ \A p \in 1..MaxChildren :
       children[p] = "running" => child_proc[p].inherited = {}
  /\ \A t \in Threads :
       pc[t] \notin {"hp_fork", "hp_close", "terminated"} => pipefd[t] = <<>>

\* C39: in handlePipes the per-stage argument vector never exceeds its
\* capacity: each stage about to be copied into command_args has at most
\* MAX_ARGS - 1 words, so that the terminator is written within the array.
C39_StageFitsCommandArgs ==
  \A t \in Threads : pc[t] = "hp_fork" => ~StageOverflows(t)

\* C40: in the basic shell loop, tokenizing a line writes only to indices
\* 0..9 of the 10-slot args array, the write of the terminating NULL
\* included, for every number of words on the line.
C40_BasicArgsWritesInRange ==
  basic_writes \subseteq 0..(BASIC_ARGS - 1)

====
